---- MODULE Spec2Model ----
(***************************************************************************)
(* Carte Blanche: the rule store and rule matching engine (src/engine.py)  *)
(* and the workflow execution engine (src/workflow_engine.py).             *)
(*                                                                         *)
(* A Python string is a string; its characters are read with SubSeq.  A    *)
(* Python dict is a function whose DOMAIN is the set of keys that are      *)
(* present, so that dict.get(key, default) is modelled with its default.   *)
(***************************************************************************)
EXTENDS Integers, Sequences, FiniteSets, TLC

VARIABLES
    os_seps,    \* the separators os.path splits on: {"/"} (posixpath) or {"/", "\\"} (ntpath)
    rules,      \* RuleEngine.rules, the in-memory rule list
    disk,       \* the rule file at RuleEngine.config_path
    writable,   \* whether the rule file can be written (save_rules succeeds)
    op,         \* the public method of RuleEngine that ran last, with its arguments
    ret,        \* what that call returned
    workflow,        \* WorkflowEngine.workflow, the loaded workflow (None when not loaded)
    context,         \* WorkflowEngine.context
    trigger_context, \* the argument of execute, as it was when execute was called
    caller_context,  \* the caller's mapping that was passed to execute, as it is now
    aliased,         \* whether WorkflowEngine.context is the caller's mapping itself
    wf_pc,           \* where execute is: "idle", "loop", "break", "returned", or
                     \* "raised" when an exception left execute
    wf_i,            \* the 1-based index i of the loop of execute
    results,         \* the local list `results` of execute
    tool_calls,      \* the calls of tool_registry.execute made so far, in order
    wf_return,       \* what execute returned
    wf_run,          \* the number of execute calls started so far
    first_run,       \* the argument, results and context of the first execute call
    tool_memo,       \* what the deterministic tools returned, per call made
    watcher,         \* the FileWatcher singleton: its _running flag and its observer
    dirs,            \* the directories that exist on disk
    thread_error,    \* the exception that ended the last background start thread
    start_threads,   \* the background threads running FileWatcher.start, in spawn order
    detached,        \* the observers the watcher no longer refers to
    scan,            \* the find_matching_rules call in progress, if any
    batch,           \* the process-all request in progress: its locals
    timeline,        \* what the request's thread did so far, in order
    dispatch         \* the _process_file call in progress on the observer thread

rvars == <<os_seps, rules, disk, writable, op, ret>>

wvars == <<workflow, context, trigger_context, caller_context, aliased, wf_pc, wf_i, results,
           tool_calls, wf_return, wf_run, first_run, tool_memo>>

\* what a second execute call is compared with
hvars == <<first_run, tool_memo>>

\* the watcher of the control plane
cvars == <<watcher, dirs, thread_error, start_threads, detached>>

\* the calls in progress on the observer thread and on a request thread
pvars == <<scan, batch, timeline, dispatch>>

vars == <<rvars, wvars, cvars, pvars>>

-----------------------------------------------------------------------------
(* Bounds *)

MaxRules == 3

-----------------------------------------------------------------------------
(* Python built-ins *)

None == "<None>"

\* dict.get(key, default)
Get(d, key, default) == IF key \in DOMAIN d THEN d[key] ELSE default

\* s[i - 1] in Python: the i-th character, 1-based
CharAt(s, i) == SubSeq(s, i, i)

\* str.replace('\\', '/')
RECURSIVE replace_backslash(_)
replace_backslash(s) ==
    IF s = "" THEN ""
    ELSE (IF Head(s) = "\\" THEN "/" ELSE Head(s)) \o replace_backslash(Tail(s))

\* str.lower(), on the letters the model uses
lower_char(c) ==
    CASE c = "T" -> "t"
      [] c = "X" -> "x"
      [] c = "F" -> "f"
      [] OTHER -> c

RECURSIVE lower(_)
lower(s) == IF s = "" THEN "" ELSE lower_char(Head(s)) \o lower(Tail(s))

\* str.rfind over a set of characters: the last index (1-based) holding one of
\* them, 0 when there is none
RECURSIVE rfind_any(_, _, _)
rfind_any(s, chars, i) ==
    IF i = 0 THEN 0
    ELSE IF CharAt(s, i) \in chars THEN i
    ELSE rfind_any(s, chars, i - 1)

\* str.rstrip(chars)
RECURSIVE rstrip(_, _)
rstrip(s, chars) ==
    IF s # "" /\ CharAt(s, Len(s)) \in chars
    THEN rstrip(SubSeq(s, 1, Len(s) - 1), chars)
    ELSE s

\* str.startswith(prefix), character by character
RECURSIVE startswith_from(_, _, _)
startswith_from(s, prefix, i) ==
    IF i > Len(prefix) THEN TRUE
    ELSE IF i > Len(s) THEN FALSE
    ELSE IF CharAt(s, i) # CharAt(prefix, i) THEN FALSE
    ELSE startswith_from(s, prefix, i + 1)

startswith(s, prefix) == startswith_from(s, prefix, 1)

\* os.path.dirname(p): the head of os.path.split(p).  Everything up to the last
\* separator, with trailing separators stripped unless the head is separators
\* only.  (Paths with a drive letter or a UNC prefix are not in the model.)
dirname(p, seps) ==
    LET i    == rfind_any(p, seps, Len(p))
        head == SubSeq(p, 1, i)
        cut  == rstrip(head, seps)
    IN  IF cut = "" THEN head ELSE cut

\* genericpath._splitext: the first index after sepIndex, below dotIndex,
\* whose character is not a dot; 0 when the name is dots only up to dotIndex
RECURSIVE first_non_dot(_, _, _)
first_non_dot(p, k, dotIndex) ==
    IF k >= dotIndex THEN 0
    ELSE IF CharAt(p, k) # "." THEN k
    ELSE first_non_dot(p, k + 1, dotIndex)

\* os.path.splitext(p)[1]
splitext_ext(p, seps) ==
    LET sepIndex == rfind_any(p, seps, Len(p))
        dotIndex == rfind_any(p, {"."}, Len(p))
    IN  IF dotIndex > sepIndex /\ first_non_dot(p, sepIndex + 1, dotIndex) # 0
        THEN SubSeq(p, dotIndex, Len(p))
        ELSE ""

-----------------------------------------------------------------------------
(* RuleEngine (src/engine.py): matching *)

\* {}: the dict with no keys
EmptyDict == <<>>

\* engine.py:97-98  `if not rule.get('enabled', True): continue`
enabled_check_absent_is_disabled(rule) == Get(rule, "enabled", FALSE)

enabled_check(rule) == Get(rule, "enabled", TRUE)

\* engine.py:103-104  `if trigger.get('type') != event_type: continue`
type_check(trigger, event_type) == Get(trigger, "type", None) = event_type

\* engine.py:107-109  `if not file_dir.startswith(rule_path): continue`
path_check_segments(trigger, file_dir) ==
    LET rule_path == replace_backslash(Get(trigger, "path", ""))
    IN  /\ startswith(file_dir, rule_path)
        /\ \/ Len(file_dir) = Len(rule_path)
           \/ rule_path = ""
           \/ CharAt(file_dir, Len(rule_path) + 1) = "/"

path_check(trigger, file_dir) ==
    LET rule_path == replace_backslash(Get(trigger, "path", ""))
    IN  startswith(file_dir, rule_path)

\* engine.py:112-114  `if extensions and file_ext not in extensions: continue`
ext_check_empty_rejects(trigger, file_ext) ==
    file_ext \in Get(trigger, "extensions", {})

ext_check(trigger, file_ext) ==
    LET extensions == Get(trigger, "extensions", {})
    IN  ~(extensions # {} /\ file_ext \notin extensions)

\* engine.py:116  `matching.append(rule)`
matching_append_front(matching, rule) == <<rule>> \o matching

matching_append(matching, rule) == Append(matching, rule)

\* engine.py:96-116, the loop over self.rules from index i on
RECURSIVE find_matching_loop(_, _, _, _, _, _)
find_matching_loop(rs, i, matching, file_ext, file_dir, event_type) ==
    IF i > Len(rs) THEN matching
    ELSE
        LET rule    == rs[i]
            trigger == Get(rule, "trigger", EmptyDict)
            next    ==
                IF ~enabled_check(rule) THEN matching
                ELSE IF ~type_check(trigger, event_type) THEN matching
                ELSE IF ~path_check(trigger, file_dir) THEN matching
                ELSE IF ~ext_check(trigger, file_ext) THEN matching
                ELSE matching_append(matching, rule)
        IN  find_matching_loop(rs, i + 1, next, file_ext, file_dir, event_type)

\* engine.py:93  file_ext = os.path.splitext(file_path)[1].lower()
event_file_ext(file_path, seps) == lower(splitext_ext(file_path, seps))

\* engine.py:94  file_dir = os.path.dirname(file_path).replace('\\', '/')
event_file_dir(file_path, seps) == replace_backslash(dirname(file_path, seps))

\* RuleEngine.find_matching_rules
find_matching_rules(rs, file_path, event_type, seps) ==
    find_matching_loop(rs, 1, <<>>,
                       event_file_ext(file_path, seps),
                       event_file_dir(file_path, seps),
                       event_type)

\* engine.py:81-85, what one rule adds to the set `paths`
watched_rule_paths_any_rule(rule) ==
    LET trigger == Get(rule, "trigger", EmptyDict)
    IN  IF "path" \in DOMAIN trigger /\ trigger["path"] # ""
        THEN {trigger["path"]}
        ELSE {}

watched_rule_paths(rule) ==
    LET trigger == Get(rule, "trigger", EmptyDict)
    IN  IF enabled_check(rule)
           /\ "path" \in DOMAIN trigger
           /\ trigger["path"] # ""
        THEN {trigger["path"]}
        ELSE {}

\* engine.py:79-85, the loop of get_watched_paths from index i on
RECURSIVE watched_paths_loop(_, _, _)
watched_paths_loop(rs, i, paths) ==
    IF i > Len(rs) THEN paths
    ELSE watched_paths_loop(rs, i + 1, paths \cup watched_rule_paths(rs[i]))

\* every list that holds each element of S exactly once
ListsOfSet(S) ==
    {l \in [1..Cardinality(S) -> S] : \A i, j \in DOMAIN l : l[i] = l[j] => i = j}

\* RuleEngine.get_watched_paths: the lists `list(paths)` may be (a set's
\* iteration order is arbitrary)
get_watched_paths(rs) == ListsOfSet(watched_paths_loop(rs, 1, {}))

-----------------------------------------------------------------------------
(* RuleEngine (src/engine.py): the rule store *)

\* d[key] = value on a dict
SetKey(d, key, value) ==
    [k \in DOMAIN d \cup {key} |-> IF k = key THEN value ELSE d[k]]

\* list.pop(i)
Pop(l, i) == SubSeq(l, 1, i - 1) \o SubSeq(l, i + 1, Len(l))

\* f"rule_{n:03d}"
auto_id(n) ==
    "rule_" \o (IF n < 10 THEN "00" ELSE IF n < 100 THEN "0" ELSE "") \o ToString(n)

\* the index of the first rule with rule.get('id') == rule_id, 0 when there is none
RECURSIVE index_of_id(_, _, _)
index_of_id(rs, rule_id, i) ==
    IF i > Len(rs) THEN 0
    ELSE IF Get(rs[i], "id", None) = rule_id THEN i
    ELSE index_of_id(rs, rule_id, i + 1)

\* RuleEngine.load_rules: the rule list after loading the file
load_rules(file) == IF file.kind = "ok" THEN file.rules ELSE <<>>

\* RuleEngine.save_rules: the file after saving rs, and the returned flag
save_rules_file(rs, file, can_write) ==
    IF can_write THEN [kind |-> "ok", rules |-> rs] ELSE file

save_rules_ret(can_write) == can_write

\* engine.py:55-57  the list after add_rule(rule)
add_rule_list(rs, rule) ==
    LET with_id == IF Get(rule, "id", "") = ""
                   THEN SetKey(rule, "id", auto_id(Len(rs) + 1))
                   ELSE rule
    IN  Append(rs, with_id)

\* engine.py:64-65  the rule stored by update_rule(rule_id, updated_rule)
updated_with_id_unset(rule_id, updated_rule) == updated_rule

updated_with_id(rule_id, updated_rule) == SetKey(updated_rule, "id", rule_id)

\* engine.py:62-67  the list after update_rule(rule_id, updated_rule)
update_rule_list(rs, rule_id, updated_rule) ==
    LET i == index_of_id(rs, rule_id, 1)
    IN  IF i = 0 THEN rs
        ELSE [rs EXCEPT ![i] = updated_with_id(rule_id, updated_rule)]

\* engine.py:71-75  the list after delete_rule(rule_id)
delete_rule_list(rs, rule_id) ==
    LET i == index_of_id(rs, rule_id, 1)
    IN  IF i = 0 THEN rs ELSE Pop(rs, i)

-----------------------------------------------------------------------------
(* Inputs *)

\* directory paths a trigger may hold
Path_a        == "/a"
Path_ab       == "/a/b"
Path_ab_slash == "/a/b/"
Path_back_a   == "\\a"
Path_c        == "/c"

\* extensions a trigger may list
Ext_t  == ".t"
Ext_T  == ".T"
Ext_x  == ".x"

\* the rules of the matching specification: every shape of rule the matching
\* code distinguishes (keys absent or present, enabled or not, kinds of path,
\* kinds of extension list)
MatchRulePool == {
    [id |-> "r1", trigger |-> [type |-> "file_created", path |-> Path_ab, extensions |-> {}]],
    [id |-> "r2", enabled |-> FALSE,
        trigger |-> [type |-> "file_created", path |-> Path_a, extensions |-> {}]],
    [id |-> "r3", enabled |-> TRUE,
        trigger |-> [type |-> "file_created", path |-> Path_ab_slash, extensions |-> {Ext_t}]],
    [id |-> "r4", enabled |-> TRUE,
        trigger |-> [type |-> "file_modified", path |-> Path_back_a, extensions |-> {Ext_T, Ext_x}]],
    [id |-> "r5", enabled |-> TRUE, trigger |-> [type |-> "file_created"]],
    [id |-> "r6", enabled |-> TRUE],
    [id |-> "r7", enabled |-> TRUE,
        trigger |-> [type |-> "file_created", path |-> "", extensions |-> {Ext_t, Ext_x}]],
    [id |-> "r8", enabled |-> TRUE,
        trigger |-> [type |-> "file_created", path |-> Path_ab, extensions |-> {Ext_t}]]
}

\* the files of the events
EventFiles == {
    "/a/b/f.t",
    "/a/bc/f.T",
    "/a/b//g",
    "/a/.t",
    "\\a\\b\\f.x",
    "/c/F.X",
    "f.t"
}

EventTypes == {"file_created", "file_modified"}

\* lists of at most n rules of pool, no rule twice
RuleLists(pool, n) ==
    {l \in UNION {[1..k -> pool] : k \in 0..n} :
        \A i, j \in DOMAIN l : l[i] = l[j] => i = j}

-----------------------------------------------------------------------------
(* The matching specification: a rule store and the read-only calls on it *)

NoCall == [name |-> "none"]

\* no find_matching_rules call is in progress
NoScan == [pc |-> "idle"]

\* no process-all request is in progress
NoBatch == [pc |-> "idle"]

\* no filesystem event is being handled
NoDispatch == [pc |-> "idle"]

\* no WorkflowEngine and no FileWatcher has been constructed
WorkflowEngineUnused ==
    /\ workflow = [t |-> "none"]
    /\ context = EmptyDict
    /\ trigger_context = [t |-> "none"]
    /\ caller_context = [t |-> "none"]
    /\ aliased = FALSE
    /\ wf_pc = "idle"
    /\ wf_i = 0
    /\ results = <<>>
    /\ tool_calls = <<>>
    /\ wf_return = None
    /\ wf_run = 0
    /\ first_run = None
    /\ tool_memo = <<>>
    /\ watcher = None
    /\ dirs = {}
    /\ thread_error = None
    /\ start_threads = <<>>
    /\ detached = {}
    /\ scan = NoScan
    /\ batch = NoBatch
    /\ timeline = <<>>
    /\ dispatch = NoDispatch

MatchInit ==
    /\ os_seps \in {{"/"}, {"/", "\\"}}
    /\ rules \in RuleLists(MatchRulePool, MaxRules)
    /\ disk = [kind |-> "ok", rules |-> rules]
    /\ writable = TRUE
    /\ op = NoCall
    /\ ret = None
    /\ WorkflowEngineUnused

\* find_matching_rules keeping only the matching rules in the store
FindMatchingRules_filters_store ==
    \E file_path \in EventFiles, event_type \in EventTypes :
        /\ op' = [name |-> "find_matching_rules",
                  file_path |-> file_path, event_type |-> event_type]
        /\ ret' = find_matching_rules(rules, file_path, event_type, os_seps)
        /\ rules' = ret'
        /\ UNCHANGED <<os_seps, disk, writable, wvars, cvars, pvars>>

\* a call of RuleEngine.find_matching_rules(file_path, event_type)
FindMatchingRules ==
    \E file_path \in EventFiles, event_type \in EventTypes :
        /\ op' = [name |-> "find_matching_rules",
                  file_path |-> file_path, event_type |-> event_type]
        /\ ret' = find_matching_rules(rules, file_path, event_type, os_seps)
        /\ UNCHANGED <<os_seps, rules, disk, writable, wvars, cvars, pvars>>

\* a call of RuleEngine.get_watched_paths()
GetWatchedPaths ==
    /\ op' = [name |-> "get_watched_paths"]
    /\ ret' \in get_watched_paths(rules)
    /\ UNCHANGED <<os_seps, rules, disk, writable, wvars, cvars, pvars>>

MatchNext == FindMatchingRules \/ GetWatchedPaths

MatchSpec == MatchInit /\ [][MatchNext]_vars

-----------------------------------------------------------------------------
(* The store specification: the rule list, its file, and the calls that     *)
(* change them                                                              *)

\* the rules the control plane sends, without their id
StoreBodies == {
    [name |-> "n1", trigger |-> [type |-> "file_created", path |-> Path_ab, extensions |-> {}]],
    [name |-> "n2", enabled |-> FALSE,
        trigger |-> [type |-> "file_created", path |-> Path_c, extensions |-> {Ext_t}]]
}

\* the rules given to add_rule: no id, an empty id, an id of the caller's
AddRuleInputs ==
    StoreBodies
        \cup {SetKey(b, "id", "rule_002") : b \in StoreBodies}
        \cup {SetKey(b, "id", "") : b \in {r \in StoreBodies : r.name = "n1"}}

\* the rules given to update_rule: no id, or an id that is not the addressed one
UpdateRuleInputs == StoreBodies \cup {SetKey(b, "id", "x") : b \in StoreBodies}

\* the ids the control plane addresses
RuleIds == {"rule_001", "rule_002", "rule_003"}

\* the rule file before the engine is constructed
InitialFiles == {
    [kind |-> "missing"],
    [kind |-> "corrupt"],
    [kind |-> "ok", rules |-> <<>>],
    [kind |-> "ok", rules |->
        <<[id |-> "rule_001", name |-> "n1",
           trigger |-> [type |-> "file_created", path |-> Path_ab, extensions |-> {}]]>>]
}

\* RuleEngine.__init__: the rules are loaded from the file
StoreInit ==
    /\ os_seps = {"/"}
    /\ disk \in InitialFiles
    /\ writable \in BOOLEAN
    /\ rules = load_rules(disk)
    /\ op = NoCall
    /\ ret = None
    /\ WorkflowEngineUnused

\* load_rules() without the assignments of the failure paths
load_rules_call_keeps_rules ==
    /\ op' = [name |-> "load_rules"]
    /\ rules' = IF disk.kind = "ok" THEN disk.rules ELSE rules
    /\ ret' = None
    /\ UNCHANGED <<os_seps, disk, writable, wvars, cvars>>

\* engine.py:16-29  load_rules(): self.rules is bound to a new list
load_rules_call ==
    /\ op' = [name |-> "load_rules"]
    /\ rules' = load_rules(disk)
    /\ ret' = None
    /\ UNCHANGED <<os_seps, disk, writable, wvars, cvars>>

\* a call of RuleEngine.load_rules()
LoadRules == load_rules_call /\ UNCHANGED pvars

\* a call of RuleEngine.add_rule(rule)
AddRule ==
    \E rule \in AddRuleInputs :
        /\ Len(rules) < MaxRules
        /\ op' = [name |-> "add_rule", rule |-> rule]
        /\ rules' = add_rule_list(rules, rule)
        /\ disk' = save_rules_file(rules', disk, writable)
        /\ ret' = save_rules_ret(writable)
        /\ UNCHANGED <<os_seps, writable, wvars, cvars, pvars>>

\* a call of RuleEngine.update_rule(rule_id, updated_rule)
UpdateRule ==
    \E rule_id \in RuleIds, updated_rule \in UpdateRuleInputs :
        /\ op' = [name |-> "update_rule", rule_id |-> rule_id,
                  updated_rule |-> updated_rule]
        /\ rules' = update_rule_list(rules, rule_id, updated_rule)
        /\ IF index_of_id(rules, rule_id, 1) # 0
           THEN /\ disk' = save_rules_file(rules', disk, writable)
                /\ ret' = save_rules_ret(writable)
           ELSE /\ disk' = disk
                /\ ret' = FALSE
        /\ UNCHANGED <<os_seps, writable, wvars, cvars, pvars>>

\* a call of RuleEngine.delete_rule(rule_id)
DeleteRule ==
    \E rule_id \in RuleIds :
        /\ op' = [name |-> "delete_rule", rule_id |-> rule_id]
        /\ rules' = delete_rule_list(rules, rule_id)
        /\ IF index_of_id(rules, rule_id, 1) # 0
           THEN /\ disk' = save_rules_file(rules', disk, writable)
                /\ ret' = save_rules_ret(writable)
           ELSE /\ disk' = disk
                /\ ret' = FALSE
        /\ UNCHANGED <<os_seps, writable, wvars, cvars, pvars>>

StoreNext == LoadRules \/ AddRule \/ UpdateRule \/ DeleteRule

StoreSpec == StoreInit /\ [][StoreNext]_vars

-----------------------------------------------------------------------------
(* The scan specification: find_matching_rules runs on the observer thread  *)
(* while the control plane, on its own threads, changes and reloads the     *)
(* rule store of the same RuleEngine (app.py:26 rule_engine =               *)
(* _watcher.rule_engine)                                                    *)

\* the files of the events the observer thread handles
ScanFiles == {"/a/b/f.t"}

\* the requests the control plane serves meanwhile: rules are added as the
\* editor sends them, without an id; the first rules are updated and deleted
ScanAdds == {r \in AddRuleInputs : "id" \notin DOMAIN r}

ScanUpdates == {r \in UpdateRuleInputs : "id" \notin DOMAIN r}

ScanRuleIds == {"rule_001", "rule_002"}

\* the rule files the engine may have been constructed from
ScanRulePool ==
    {SetKey(b, "id", id) : b \in {r \in StoreBodies : r.name = "n1"}, id \in ScanRuleIds}

ScanInitialFiles ==
    {[kind |-> "missing"]}
        \cup {[kind |-> "ok", rules |-> l] : l \in RuleLists(ScanRulePool, 2)}

\* the control plane changes the store once per find_matching_rules call:
\* no add, update or delete was served since the last call returned
StoreQuiet == op.name \in {"none", "find_matching_rules"}

\* engine.py:96  `for rule in self.rules`: the list the iterator of the call
\* reads.  It is the list self.rules named when the loop began: the list
\* add_rule, update_rule and delete_rule change in place, until load_rules
\* binds self.rules to a new list and leaves the old one to the iterator.
scan_list(sc, rs) == IF sc.rebound THEN sc.list ELSE rs

\* what load_rules leaves of a call in progress: its iterator keeps the list
\* self.rules named so far
scan_after_rebind(sc, rs) ==
    IF sc.pc = "loop" /\ ~sc.rebound
    THEN [sc EXCEPT !.rebound = TRUE, !.list = rs]
    ELSE sc

\* RuleEngine.__init__: the rules are loaded from the file
ScanInit ==
    /\ os_seps = {"/"}
    /\ disk \in ScanInitialFiles
    /\ writable = TRUE
    /\ rules = load_rules(disk)
    /\ op = NoCall
    /\ ret = None
    /\ WorkflowEngineUnused

\* engine.py:92-96  find_matching_rules(file_path, "file_created") begins, as
\* FileEventHandler._process_file calls it (watcher.py:31-34)
FindStart ==
    \E file_path \in ScanFiles :
        /\ scan.pc \in {"idle", "returned"}
        /\ scan' = [pc |-> "loop", file_path |-> file_path,
                    event_type |-> "file_created", at_start |-> rules,
                    i |-> 1, matching |-> <<>>, rebound |-> FALSE, list |-> <<>>]
        /\ UNCHANGED <<rvars, wvars, cvars, batch, timeline, dispatch>>

\* engine.py:96-116  one iteration of the loop: the iterator yields the
\* element at its index of the list as it is now
FindIteration ==
    /\ scan.pc = "loop"
    /\ scan.i <= Len(scan_list(scan, rules))
    /\ scan' = [scan EXCEPT
           !.matching = find_matching_loop(<<scan_list(scan, rules)[scan.i]>>, 1, @,
                            event_file_ext(scan.file_path, os_seps),
                            event_file_dir(scan.file_path, os_seps),
                            scan.event_type),
           !.i = @ + 1]
    /\ UNCHANGED <<rvars, wvars, cvars, batch, timeline, dispatch>>

\* engine.py:96, 118  the iterator is past the end of the list: return matching
FindReturn ==
    /\ scan.pc = "loop"
    /\ scan.i > Len(scan_list(scan, rules))
    /\ scan' = [scan EXCEPT !.pc = "returned"]
    /\ op' = [name |-> "find_matching_rules", file_path |-> scan.file_path,
              event_type |-> scan.event_type]
    /\ ret' = scan.matching
    /\ UNCHANGED <<os_seps, rules, disk, writable, wvars, cvars, batch, timeline, dispatch>>

\* a call of RuleEngine.load_rules() from the control plane (app.py:62, 85,
\* 95, 148-150)
ReloadRules ==
    /\ load_rules_call
    /\ scan' = scan_after_rebind(scan, rules)
    /\ UNCHANGED <<batch, timeline, dispatch>>

ScanNext ==
    \/ FindStart
    \/ FindIteration
    \/ FindReturn
    \/ ReloadRules
    \/ (StoreQuiet /\ AddRule /\ op'.rule \in ScanAdds)
    \/ (StoreQuiet /\ UpdateRule /\ op'.rule_id \in ScanRuleIds
                   /\ op'.updated_rule \in ScanUpdates)
    \/ (StoreQuiet /\ DeleteRule /\ op'.rule_id \in ScanRuleIds)

ScanSpec == ScanInit /\ [][ScanNext]_vars

-----------------------------------------------------------------------------
(* Properties of the matching engine *)

Range(l) == {l[i] : i \in DOMAIN l}

IsPrefixOf(p, s) == Len(p) <= Len(s) /\ SubSeq(s, 1, Len(p)) = p

IsFind == op.name = "find_matching_rules"

\* the rule's trigger fields, as section 3 of the specification names them
TriggerType(rule) ==
    IF "trigger" \in DOMAIN rule /\ "type" \in DOMAIN rule.trigger
    THEN rule.trigger.type ELSE None

TriggerPath(rule) ==
    IF "trigger" \in DOMAIN rule /\ "path" \in DOMAIN rule.trigger
    THEN rule.trigger.path ELSE ""

TriggerExtensions(rule) ==
    IF "trigger" \in DOMAIN rule /\ "extensions" \in DOMAIN rule.trigger
    THEN rule.trigger.extensions ELSE {}

IsEnabled(rule) == "enabled" \in DOMAIN rule => rule.enabled

TypeMatches(rule) == TriggerType(rule) = op.event_type

PathMatches(rule) ==
    IsPrefixOf(replace_backslash(TriggerPath(rule)),
               replace_backslash(dirname(op.file_path, os_seps)))

ExtensionMatches(rule) ==
    \/ TriggerExtensions(rule) = {}
    \/ lower(splitext_ext(op.file_path, os_seps)) \in TriggerExtensions(rule)

\* C1: find_matching_rules returns, in store order, exactly the rules that are
\* enabled, whose trigger type is the event type, whose slash-normalized
\* trigger path is a string prefix of the event file's slash-normalized
\* directory, and whose extension list is empty or holds the file's lowercase
\* extension; nothing is duplicated, reordered or omitted.
C1_find_matching_exact ==
    IsFind =>
        ret = SelectSeq(rules, LAMBDA rule :
                  /\ IsEnabled(rule)
                  /\ TypeMatches(rule)
                  /\ PathMatches(rule)
                  /\ ExtensionMatches(rule))

\* a call that returned the first and the third of three rules
C1_witness ==
    /\ IsFind
    /\ Len(rules) = 3
    /\ ret = <<rules[1], rules[3]>>

\* C2: a rule with enabled = false is never in the result of
\* find_matching_rules, and a rule without an 'enabled' key is treated as an
\* enabled one: it is in the result exactly when its trigger matches.
C2_disabled_never_absent_enabled ==
    IsFind =>
        /\ \A i \in DOMAIN ret :
               ~("enabled" \in DOMAIN ret[i] /\ ret[i].enabled = FALSE)
        /\ \A i \in DOMAIN rules :
               "enabled" \notin DOMAIN rules[i] =>
                   (rules[i] \in Range(ret)) =
                       (TypeMatches(rules[i]) /\ PathMatches(rules[i])
                            /\ ExtensionMatches(rules[i]))

\* a rule without 'enabled' was returned while a disabled rule whose trigger
\* matches the same event was left out
C2_witness ==
    /\ IsFind
    /\ \E i \in DOMAIN ret : "enabled" \notin DOMAIN ret[i]
    /\ \E i \in DOMAIN rules :
           /\ "enabled" \in DOMAIN rules[i] /\ rules[i].enabled = FALSE
           /\ TypeMatches(rules[i]) /\ PathMatches(rules[i]) /\ ExtensionMatches(rules[i])
           /\ rules[i] \notin Range(ret)

\* C3: for an enabled rule whose trigger type and extensions match, the event
\* matches exactly when the event's (slash-normalized) directory starts with
\* the rule's (slash-normalized) trigger path as a plain string prefix; a
\* sibling directory that only shares the prefix matches too.
C3_plain_string_prefix ==
    IsFind =>
        \A i \in DOMAIN rules :
            (IsEnabled(rules[i]) /\ TypeMatches(rules[i]) /\ ExtensionMatches(rules[i])) =>
                (rules[i] \in Range(ret)) =
                    startswith(event_file_dir(op.file_path, os_seps),
                               replace_backslash(TriggerPath(rules[i])))

\* a rule for "/a/b" was returned for an event in the sibling directory "/a/bc"
C3_witness ==
    /\ IsFind
    /\ event_file_dir(op.file_path, os_seps) = "/a/bc"
    /\ \E i \in DOMAIN ret : TriggerPath(ret[i]) = Path_ab

\* C4: a rule with an empty extension collection lets a file with any
\* extension (or none) pass the extension check; a rule with a non-empty one
\* lets a file pass only if its extension, compared case-insensitively, is one
\* of the listed extensions.
C4_extension_check ==
    IsFind =>
        \A i \in DOMAIN rules :
            (IsEnabled(rules[i]) /\ TypeMatches(rules[i]) /\ PathMatches(rules[i])) =>
                /\ TriggerExtensions(rules[i]) = {} => rules[i] \in Range(ret)
                /\ (TriggerExtensions(rules[i]) # {} /\ rules[i] \in Range(ret)) =>
                       \E e \in TriggerExtensions(rules[i]) :
                           lower(e) = lower(splitext_ext(op.file_path, os_seps))

\* a file with an upper-case extension passed a list that holds the lower-case
\* one, and passed an empty list
C4_witness ==
    /\ IsFind
    /\ splitext_ext(op.file_path, os_seps) = Ext_T
    /\ \E i \in DOMAIN ret : TriggerExtensions(ret[i]) = {Ext_t}
    /\ \E i \in DOMAIN ret : TriggerExtensions(ret[i]) = {}

\* the rule with the trailing separators of its trigger path removed
WithoutTrailingSeparators(rule) ==
    IF "trigger" \in DOMAIN rule /\ "path" \in DOMAIN rule.trigger
    THEN [rule EXCEPT !.trigger.path = rstrip(@, {"/", "\\"})]
    ELSE rule

\* C5: trailing separators are insignificant in the directory comparison: a
\* rule whose path is written with a trailing separator is in the result
\* exactly when the same rule written without it would be.
C5_trailing_separators_insignificant ==
    IsFind =>
        \A i \in DOMAIN rules :
            (rules[i] \in Range(ret)) =
                (find_matching_rules(<<WithoutTrailingSeparators(rules[i])>>,
                                     op.file_path, op.event_type, os_seps) # <<>>)

\* C6: find_matching_rules and get_watched_paths have no side effects: the
\* rule store (and the rule file) after the call is the one before it.
C6_no_side_effects ==
    [][op'.name \in {"find_matching_rules", "get_watched_paths"} =>
           (rules' = rules /\ disk' = disk)]_rvars

\* a call matched some rules of the store and not others
C6_witness ==
    /\ IsFind
    /\ ret # <<>>
    /\ Len(ret) < Len(rules)

\* the trigger paths of the enabled rules that have one
EnabledTriggerPaths ==
    {rules[i].trigger.path :
        i \in {j \in DOMAIN rules :
                  /\ IsEnabled(rules[j])
                  /\ "trigger" \in DOMAIN rules[j]
                  /\ "path" \in DOMAIN rules[j].trigger}}

NoDuplicates(l) == \A i, j \in DOMAIN l : l[i] = l[j] => i = j

\* C7, as claimed: get_watched_paths returns exactly the set of trigger paths
\* of the enabled rules, each once.
C7_watched_paths_all ==
    op.name = "get_watched_paths" =>
        /\ Range(ret) = EnabledTriggerPaths
        /\ NoDuplicates(ret)

\* C7, amended: get_watched_paths returns exactly the set of non-empty trigger
\* paths of the enabled rules, each once; a path of disabled rules only is
\* not returned.
C7_watched_paths_non_empty ==
    op.name = "get_watched_paths" =>
        /\ Range(ret) = EnabledTriggerPaths \ {""}
        /\ NoDuplicates(ret)

\* two enabled rules share a path, a disabled rule has another: one path returned
C7_witness ==
    /\ op.name = "get_watched_paths"
    /\ Len(ret) = 1
    /\ \E i, j \in DOMAIN rules :
           /\ i # j
           /\ IsEnabled(rules[i]) /\ IsEnabled(rules[j])
           /\ TriggerPath(rules[i]) = ret[1] /\ TriggerPath(rules[j]) = ret[1]
    /\ \E i \in DOMAIN rules :
           ~IsEnabled(rules[i]) /\ TriggerPath(rules[i]) \notin Range(ret)
                /\ TriggerPath(rules[i]) # ""

-----------------------------------------------------------------------------
(* Properties of the rule store *)

RuleId(rule) == IF "id" \in DOMAIN rule THEN rule.id ELSE None

\* C8: after any sequence of add_rule, update_rule and delete_rule calls, no
\* two rules in the rule store have the same id.
C8_ids_unique ==
    \A i, j \in DOMAIN rules : RuleId(rules[i]) = RuleId(rules[j]) => i = j

\* C9: after update_rule(rule_id, updated_rule) succeeds, the rule stored at
\* the position of the addressed rule has id rule_id, whatever id updated_rule
\* carried, and every other position holds the rule it held before.
C9_update_keeps_id ==
    [][(op'.name = "update_rule" /\ ret' = TRUE) =>
           /\ Len(rules') = Len(rules)
           /\ \E i \in DOMAIN rules :
                  /\ RuleId(rules[i]) = op'.rule_id
                  /\ \A k \in 1..(i - 1) : RuleId(rules[k]) # op'.rule_id
                  /\ RuleId(rules'[i]) = op'.rule_id
                  /\ \A k \in DOMAIN rules : k # i => rules'[k] = rules[k]
           /\ \A k \in DOMAIN rules : RuleId(rules'[k]) = RuleId(rules[k])]_rvars

\* an update that carried another id succeeded on a store of several rules
C9_witness ==
    /\ op.name = "update_rule"
    /\ ret = TRUE
    /\ RuleId(op.updated_rule) = "x"
    /\ Len(rules) >= 2
    /\ \E i \in DOMAIN rules :
           /\ RuleId(rules[i]) = op.rule_id
           /\ rules[i].name = op.updated_rule.name

-----------------------------------------------------------------------------
(* WorkflowEngine (src/workflow_engine.py) *)

\* Python values that are not all of one type are tagged with their type
StrV(s)  == [t |-> "str", s |-> s]
IntV(n)  == [t |-> "int", n |-> n]
BoolV(b) == [t |-> "bool", b |-> b]
DictV(d) == [t |-> "dict", d |-> d]
NoneV == [t |-> "none"]
\* a JSON array
ListV(l) == [t |-> "list", l |-> l]

\* repr(value) of a scalar; the strings of the model hold no quote
py_repr(value) ==
    CASE value.t = "str"  -> "'" \o value.s \o "'"
      [] value.t = "int"  -> ToString(value.n)
      [] value.t = "bool" -> IF value.b THEN "True" ELSE "False"
      [] OTHER            -> "None"

\* str(value); the dicts of the model that are turned into text hold at most
\* one key, whose value is a scalar
py_str(value) ==
    CASE value.t = "str"  -> value.s
      [] value.t = "dict" ->
             IF value.d = EmptyDict THEN "{}"
             ELSE LET key == CHOOSE key \in DOMAIN value.d : TRUE
                  IN  "{'" \o key \o "': " \o py_repr(value.d[key]) \o "}"
      [] OTHER            -> py_repr(value)

\* str.find(c, i): the first index >= i holding character c, 0 when there is none
RECURSIVE find_char(_, _, _)
find_char(s, c, i) ==
    IF i > Len(s) THEN 0
    ELSE IF CharAt(s, i) = c THEN i
    ELSE find_char(s, c, i + 1)

\* re.findall(r'\{([^}]+)\}', s), scanning from index pos
RECURSIVE findall_placeholders(_, _)
findall_placeholders(s, pos) ==
    LET open == find_char(s, "{", pos)
        close == find_char(s, "}", open + 1)
    IN  IF open = 0 THEN <<>>
        ELSE IF close = 0 THEN <<>>
        ELSE IF close = open + 1 THEN findall_placeholders(s, open + 1)
        ELSE <<SubSeq(s, open + 1, close - 1)>> \o findall_placeholders(s, close + 1)

\* str.replace(old, new), old not empty
RECURSIVE str_replace(_, _, _)
str_replace(s, old, new) ==
    IF Len(s) < Len(old) THEN s
    ELSE IF SubSeq(s, 1, Len(old)) = old
         THEN new \o str_replace(SubSeq(s, Len(old) + 1, Len(s)), old, new)
         ELSE Head(s) \o str_replace(Tail(s), old, new)

\* f"{{{match}}}"
placeholder(match) == "{" \o match \o "}"

\* workflow_engine.py:130-138, the body of the loop over matches: value is
\* the argument string, resolved_value the value built so far
substitute_match_as_text(value, match, resolved_value, ctx) ==
    IF match \in DOMAIN ctx
    THEN StrV(str_replace(resolved_value.s, placeholder(match), py_str(ctx[match])))
    ELSE resolved_value

substitute_match(value, match, resolved_value, ctx) ==
    IF match \in DOMAIN ctx
    THEN IF value = placeholder(match)
         THEN ctx[match]
         ELSE StrV(str_replace(resolved_value.s, placeholder(match), py_str(ctx[match])))
    ELSE resolved_value

\* workflow_engine.py:129-138, the loop over matches from index k on
RECURSIVE resolve_matches(_, _, _, _, _)
resolve_matches(value, matches, k, resolved_value, ctx) ==
    IF k > Len(matches) THEN resolved_value
    ELSE resolve_matches(value, matches, k + 1,
                         substitute_match(value, matches[k], resolved_value, ctx), ctx)

\* _resolve_variables without the branch of the nested mappings
resolve_variables_flat(args, ctx) ==
    [key \in DOMAIN args |->
        LET value == args[key]
        IN  IF value.t = "str"
            THEN resolve_matches(value.s, findall_placeholders(value.s, 1), 1, value, ctx)
            ELSE value]

\* WorkflowEngine._resolve_variables(args) with self.context = ctx
RECURSIVE resolve_variables(_, _)
resolve_variables(args, ctx) ==
    [key \in DOMAIN args |->
        LET value == args[key]
        IN  IF value.t = "str"
            THEN resolve_matches(value.s, findall_placeholders(value.s, 1), 1, value, ctx)
            ELSE IF value.t = "dict"
            THEN DictV(resolve_variables(value.d, ctx))
            ELSE value]

\* tools.py:55-62, the names ToolRegistry registers
RegisteredTools == {"read_file", "save_to_output", "open_notepad", "open_excel",
                    "open_browser", "copy_file", "move_file", "summarize_text"}

\* what a call of a tool does: it returns a dict or raises an exception
Returns(d)      == [kind |-> "return", value |-> d]
Raises(message) == [kind |-> "raise", message |-> message]

\* tools.py:35-39  ToolRegistry.get raising for a name that is not registered
\* (the message is "unregistered tool: <name>" in Korean in the source)
unregistered(name) == Raises("unregistered tool: " \o name)

\* the outcomes of a registered tool, an opaque function
ToolOutcomes == {
    Returns([success |-> TRUE, result |-> StrV("v")]),
    Returns([success |-> TRUE, result |-> IntV(42)]),
    Returns([success |-> FALSE, error |-> "failed"]),
    Raises("boom")
}

\* tools.py:48-51  ToolRegistry.execute(name, **kwargs): the outcomes it may have
registry_execute(name) ==
    IF name \in RegisteredTools THEN ToolOutcomes ELSE {unregistered(name)}

\* workflow_engine.py:61  args = action.get("args", {})
args_of(action) == Get(action, "args", DictV(EmptyDict))

\* workflow_engine.py:68  _resolve_variables(args) runs before the try: it
\* raises AttributeError when args has no items(), and execute lets it through
resolve_raises(args) == args.t # "dict"

\* workflow_engine.py:58  step_id = action.get("id", f"step{i}")
step_id_of(action, i) == Get(action, "id", "step" \o ToString(i))

\* the context replaced by a mapping that holds the two keys of the step only
context_after_return_step_only(ctx, step_id, result) ==
    (step_id \o ".result" :> Get(result, "result", StrV("")))
        @@ (step_id \o ".success" :> BoolV(Get(result, "success", FALSE)))

\* the context left as it was before the step
context_after_return_not_recorded(ctx, step_id, result) == ctx

\* workflow_engine.py:75-76  the context after a tool returned result
context_after_return(ctx, step_id, result) ==
    SetKey(SetKey(ctx, step_id \o ".result", Get(result, "result", StrV(""))),
           step_id \o ".success", BoolV(Get(result, "success", FALSE)))

\* workflow_engine.py:78-83  the StepResult of a tool that returned result
step_result_returned(step_id, tool_name, result) ==
    [step_id |-> step_id, tool |-> tool_name,
     success |-> Get(result, "success", FALSE), result |-> result]

\* workflow_engine.py:96-101  the StepResult of a tool that raised
step_result_raised_message_dropped(step_id, tool_name, message) ==
    [step_id |-> step_id, tool |-> tool_name, success |-> FALSE, error |-> "Unknown error"]

step_result_raised(step_id, tool_name, message) ==
    [step_id |-> step_id, tool |-> tool_name, success |-> FALSE, error |-> message]

\* workflow_engine.py:85-91  whether the loop goes on after result: it breaks
\* when the step failed and stop_on_fail is true or absent
continues_always(action, result) == TRUE

continues_after(action, result) ==
    IF Get(result, "success", FALSE) THEN TRUE
    ELSE ~Get(action, "stop_on_fail", TRUE)

\* workflow_engine.py:109  all(r.get("success") for r in results)
all_success_last_only(rs) == rs = <<>> \/ Get(rs[Len(rs)], "success", FALSE)

all_success(rs) == \A k \in DOMAIN rs : Get(rs[k], "success", FALSE)

\* os.path.basename(p)
basename(p, seps) == SubSeq(p, rfind_any(p, seps, Len(p)) + 1, Len(p))

\* `x or y` for an optional string: None and "" are falsy
str_or(x, y) == IF x.t = "str" /\ x.s # "" THEN x.s ELSE y

\* the trigger context with trigger.output_path bound to the argument as given
file_trigger_context_no_default(file_path, output_path, now, seps) ==
    [key \in {"trigger.file_path", "trigger.file_name", "trigger.file_dir",
              "trigger.output_path", "trigger.timestamp"} |->
        CASE key = "trigger.file_path"   -> StrV(file_path)
          [] key = "trigger.file_name"   -> StrV(basename(file_path, seps))
          [] key = "trigger.file_dir"    -> StrV(dirname(file_path, seps))
          [] key = "trigger.output_path" -> output_path
          [] OTHER                       -> StrV(now)]

\* workflow_engine.py:177-183  the trigger context run_workflow_for_file builds;
\* output_path is None when the caller gave none
file_trigger_context(file_path, output_path, now, seps) ==
    [key \in {"trigger.file_path", "trigger.file_name", "trigger.file_dir",
              "trigger.output_path", "trigger.timestamp"} |->
        CASE key = "trigger.file_path"   -> StrV(file_path)
          [] key = "trigger.file_name"   -> StrV(basename(file_path, seps))
          [] key = "trigger.file_dir"    -> StrV(dirname(file_path, seps))
          [] key = "trigger.output_path" ->
                 StrV(str_or(output_path, dirname(file_path, seps)))
          [] OTHER                       -> StrV(now)]

\* `not x` for an optional dict: None and {} are falsy
Falsy(x) == x.t = "none" \/ x.d = EmptyDict

\* the context execute would start with if the engine set its two keys only
\* where the caller's mapping has none
seeded_context_seed_wins(wf, trigger_ctx, now) ==
    LET base == IF Falsy(trigger_ctx) THEN EmptyDict ELSE trigger_ctx.d
    IN  base @@ ("workflow.name" :> StrV(Get(wf, "workflow_name", "")))
             @@ ("workflow.timestamp" :> StrV(now))

\* workflow_engine.py:47-49  the context execute starts with
seeded_context(wf, trigger_ctx, now) ==
    LET base == IF Falsy(trigger_ctx) THEN EmptyDict ELSE trigger_ctx.d
    IN  SetKey(SetKey(base, "workflow.name", StrV(Get(wf, "workflow_name", ""))),
               "workflow.timestamp", StrV(now))

-----------------------------------------------------------------------------
(* The workflow specification: one WorkflowEngine and its execute call *)

MaxSteps == 3

\* datetime.now().isoformat()
Now == "2026-01-01T00:00:00"

\* the steps a workflow file may declare
StepPool == {
    [id |-> "a", tool |-> "read_file",
     args |-> DictV("path" :> StrV("{trigger.file_path}"))],
    [id |-> "b", tool |-> "save_to_output", stop_on_fail |-> FALSE,
     args |-> DictV(("content" :> StrV("x={a.result}")) @@ ("n" :> IntV(5)))],
    [tool |-> "summarize_text", stop_on_fail |-> TRUE,
     args |-> DictV(("text" :> StrV("{a.result}"))
                       @@ ("opts" :> DictV("t" :> StrV("{b.result}{zz}"))))],
    [id |-> "", tool |-> "no_such_tool", stop_on_fail |-> FALSE],
    [id |-> "n", tool |-> "read_file", stop_on_fail |-> FALSE, args |-> NoneV],
    [id |-> "c", tool |-> "copy_file", stop_on_fail |-> FALSE,
     args |-> DictV(("source" :> StrV("{c.result}"))
                       @@ ("destination" :> StrV("{b.result}")))]
}

\* the workflows an engine may have loaded: none, an empty document, a
\* document without actions, and every list of at most MaxSteps steps
Workflows ==
    {NoneV, DictV(EmptyDict), DictV([workflow_name |-> "wf"])}
        \cup {DictV([workflow_name |-> "wf", actions |-> l]) :
                 l \in UNION {[1..n -> StepPool] : n \in 0..MaxSteps}}

\* the arguments execute is called with
TriggerContexts ==
    {NoneV, DictV(file_trigger_context("/in/f.txt", NoneV, Now, {"/"}))}

\* WorkflowEngine.__init__: the workflow is loaded, the context is empty
WfInit ==
    /\ os_seps = {"/"}
    /\ rules = <<>>
    /\ disk = [kind |-> "missing"]
    /\ writable = TRUE
    /\ op = NoCall
    /\ ret = None
    /\ workflow \in Workflows
    /\ context = EmptyDict
    /\ trigger_context = NoneV
    /\ caller_context = NoneV
    /\ aliased = FALSE
    /\ wf_pc = "idle"
    /\ wf_i = 0
    /\ results = <<>>
    /\ tool_calls = <<>>
    /\ wf_return = None
    /\ wf_run = 0
    /\ first_run = None
    /\ tool_memo = <<>>
    /\ watcher = None
    /\ dirs = {}
    /\ thread_error = None
    /\ start_threads = <<>>
    /\ detached = {}
    /\ scan = NoScan
    /\ batch = NoBatch
    /\ timeline = <<>>
    /\ dispatch = NoDispatch

\* the list l from its last element to its first
Reverse(l) == [k \in 1..Len(l) |-> l[Len(l) + 1 - k]]

\* the declared steps taken from the last to the first
actions_reversed ==
    IF Falsy(workflow) THEN <<>> ELSE Reverse(Get(workflow.d, "actions", <<>>))

\* workflow_engine.py:51  actions = self.workflow.get("actions", [])
actions == IF Falsy(workflow) THEN <<>> ELSE Get(workflow.d, "actions", <<>>)

\* workflow_engine.py:43-55  execute(arg), up to the loop
execute_start(arg) ==
    /\ wf_pc = "idle"
    /\ wf_run' = wf_run + 1
    /\ trigger_context' = arg
    /\ IF Falsy(workflow)
       THEN /\ wf_return' = [success |-> FALSE, error |-> "workflow not loaded"]
            /\ wf_pc' = "returned"
            /\ caller_context' = arg
            /\ UNCHANGED <<context, aliased, wf_i, results, tool_calls>>
       ELSE /\ context' = seeded_context(workflow.d, arg, Now)
            /\ aliased' = ~Falsy(arg)
            /\ caller_context' = IF aliased' THEN DictV(context') ELSE arg
            /\ results' = <<>>
            /\ tool_calls' = <<>>
            /\ wf_i' = 1
            /\ wf_pc' = "loop"
            /\ UNCHANGED wf_return
    /\ UNCHANGED <<os_seps, rules, disk, writable, ret, cvars, workflow, pvars>>

\* a call of execute with any argument
ExecuteStart ==
    \E arg \in TriggerContexts : execute_start(arg) /\ UNCHANGED <<op, hvars>>

\* workflow_engine.py:57-102  one iteration of the loop of execute, the call
\* of the tool having one of the outcomes call_outcomes
execute_step(call_outcomes) ==
    /\ wf_pc = "loop"
    /\ wf_i <= Len(actions)
    /\ LET action    == actions[wf_i]
           step_id   == step_id_of(action, wf_i)
           tool_name == Get(action, "tool", None)
           args      == args_of(action)
       IN  IF resolve_raises(args)
           THEN /\ wf_pc' = "raised"
                /\ UNCHANGED <<context, results, tool_calls, wf_i>>
           ELSE \E outcome \in call_outcomes :
               /\ tool_calls' = Append(tool_calls,
                      [step |-> wf_i, tool |-> tool_name,
                       args |-> resolve_variables(args.d, context),
                       outcome |-> outcome])
               /\ IF outcome.kind = "return"
                  THEN /\ context' = context_after_return(context, step_id, outcome.value)
                       /\ results' = Append(results,
                              step_result_returned(step_id, tool_name, outcome.value))
                       /\ IF continues_after(action, outcome.value)
                          THEN wf_i' = wf_i + 1 /\ wf_pc' = "loop"
                          ELSE wf_i' = wf_i /\ wf_pc' = "break"
                  ELSE /\ context' = context
                       /\ results' = Append(results,
                              step_result_raised(step_id, tool_name, outcome.message))
                       /\ wf_i' = wf_i
                       /\ wf_pc' = "break"
    /\ caller_context' = IF aliased THEN DictV(context') ELSE caller_context
    /\ UNCHANGED <<rvars, cvars, workflow, trigger_context, aliased, wf_return, wf_run, pvars>>

\* an iteration whose tool may do anything a tool can do
ExecuteStep ==
    /\ wf_pc = "loop" /\ wf_i <= Len(actions)
    /\ execute_step(registry_execute(Get(actions[wf_i], "tool", None)))
    /\ UNCHANGED hvars

\* workflow_engine.py:104-112  execute after the loop
ExecuteReturn ==
    /\ \/ wf_pc = "break"
       \/ wf_pc = "loop" /\ wf_i > Len(actions)
    /\ wf_return' = [success |-> all_success(results), results |-> results,
                     context |-> context]
    /\ wf_pc' = "returned"
    /\ UNCHANGED <<rvars, cvars, workflow, context, trigger_context, caller_context,
                   aliased, wf_i, results, tool_calls, wf_run, hvars, pvars>>

WfNext == ExecuteStart \/ ExecuteStep \/ ExecuteReturn

WfSpec == WfInit /\ [][WfNext]_vars

-----------------------------------------------------------------------------
(* The file-run specification: run_workflow_for_file constructs an engine,  *)
(* builds the trigger context of the file and calls execute with it         *)

\* the files that trigger a run: in a folder, in a nested folder, in the
\* root folder, and a bare name
TriggerFiles == {"/in/f.txt", "/in/sub/g.t", "/h", "f.txt"}

\* the output_path argument: absent, empty, given
TriggerOutputPaths == {NoneV, StrV(""), StrV("/out")}

\* workflow_engine.py:162-185  run_workflow_for_file(workflow_path, file_path,
\* output_path) on the engine it has constructed
RunWorkflowForFile ==
    \E file_path \in TriggerFiles, output_path \in TriggerOutputPaths :
        /\ wf_run = 0
        /\ op' = [name |-> "run_workflow_for_file",
                  file_path |-> file_path, output_path |-> output_path]
        /\ execute_start(DictV(file_trigger_context(file_path, output_path, Now, os_seps)))
        /\ UNCHANGED hvars

FileRunNext == RunWorkflowForFile \/ ExecuteStep \/ ExecuteReturn

FileRunSpec == WfInit /\ [][FileRunNext]_vars

-----------------------------------------------------------------------------
(* The seed specification: execute called with a context of the caller's    *)
(* that may hold the keys the engine sets itself                            *)

\* the initial contexts: none, empty, the caller's own entries, entries under
\* the keys of the engine
SeedContexts ==
    {NoneV,
     DictV(EmptyDict),
     DictV(("user.key" :> IntV(1)) @@ ("trigger.file_path" :> StrV("/in/f.txt"))),
     DictV(("workflow.name" :> StrV("other")) @@ ("user.key" :> IntV(1))),
     DictV(("workflow.name" :> StrV("other")) @@ ("workflow.timestamp" :> StrV("old"))
               @@ ("trigger.file_path" :> StrV("/in/f.txt")))}

\* workflow_engine.py:32-55  a call of execute(initial_context)
ExecuteSeeded ==
    \E arg \in SeedContexts :
        /\ wf_run = 0
        /\ execute_start(arg)
        /\ UNCHANGED <<op, hvars>>

SeedNext == ExecuteSeeded \/ ExecuteStep \/ ExecuteReturn

SeedSpec == WfInit /\ [][SeedNext]_vars

-----------------------------------------------------------------------------
(* The re-run specification: execute on a fresh engine, then execute again  *)
(* on another fresh engine with the same workflow and the same initial      *)
(* context, the tools being deterministic                                   *)

\* the call of tool_registry.execute that iteration i of the loop makes
\* (workflow_engine.py:59, 68, 72)
step_call(i) ==
    [tool |-> Get(actions[i], "tool", None),
     args |-> resolve_variables(args_of(actions[i]).d, context)]

\* the entries of memo for call
memo_hits(memo, call) == {k \in DOMAIN memo : memo[k].call = call}

\* a deterministic tool: a call made before has the outcome it had, a new
\* call any outcome the tool can have
deterministic_outcomes(memo, call) ==
    IF memo_hits(memo, call) # {}
    THEN {memo[k].outcome : k \in memo_hits(memo, call)}
    ELSE registry_execute(call.tool)

remember(memo, call, outcome) ==
    IF memo_hits(memo, call) # {} THEN memo
    ELSE Append(memo, [call |-> call, outcome |-> outcome])

\* WorkflowEngine(workflow_path): a new engine for the same workflow file; what
\* the first call did is kept for comparison
FreshEngine ==
    /\ wf_pc = "returned"
    /\ wf_run = 1
    /\ first_run' = [trigger_context |-> trigger_context, results |-> results,
                     context |-> context, return |-> wf_return]
    /\ context' = EmptyDict
    /\ aliased' = FALSE
    /\ wf_pc' = "idle"
    /\ wf_i' = 0
    /\ results' = <<>>
    /\ tool_calls' = <<>>
    /\ wf_return' = None
    /\ UNCHANGED <<rvars, cvars, workflow, trigger_context, caller_context, wf_run,
                   tool_memo, pvars>>

\* the first call of execute
ExecuteFirst == wf_run = 0 /\ ExecuteStart

\* the second call of execute, with the same initial context: the caller
\* passes the very mapping it passed to the first call, or an equal copy of
\* what it passed then
ExecuteAgain ==
    /\ wf_run = 1
    /\ \E same_mapping \in BOOLEAN :
           execute_start(IF same_mapping THEN caller_context
                         ELSE first_run.trigger_context)
    /\ UNCHANGED <<op, hvars>>

\* an iteration whose tool is deterministic
DeterministicStep ==
    /\ wf_pc = "loop" /\ wf_i <= Len(actions)
    /\ IF resolve_raises(args_of(actions[wf_i]))
       THEN execute_step({}) /\ UNCHANGED tool_memo
       ELSE /\ execute_step(deterministic_outcomes(tool_memo, step_call(wf_i)))
            /\ tool_memo' = remember(tool_memo, step_call(wf_i),
                                     tool_calls'[Len(tool_calls')].outcome)
    /\ UNCHANGED first_run

RerunNext == ExecuteFirst \/ DeterministicStep \/ ExecuteReturn \/ FreshEngine \/ ExecuteAgain

RerunSpec == WfInit /\ [][RerunNext]_vars

-----------------------------------------------------------------------------
(* The resolution specification: _resolve_variables applied to declared    *)
(* arguments under a context                                               *)

\* the values a context key may hold: text, text that itself reads as a
\* placeholder, a number, a bool, a nested structure
ContextValues ==
    {StrV("V"), StrV("{b}"), IntV(42), BoolV(TRUE), DictV([k |-> IntV(1)])}

\* the contexts _resolve_variables may run under: any of the keys a and b,
\* present or not
ResolveContexts ==
    UNION {[keys -> ContextValues] : keys \in SUBSET {"a", "b"}}

\* the argument strings a step may declare
ArgStrings ==
    {"", "plain", "{}", "{a}", "{b}", "{zz}", "{a}{a}", "p{a}q", "{a}-{b}", "{b}-{a}",
     "{a}{zz}", "{zz}-{b}{yy}", "{w{a}", "{a} {w{a}"}

\* the declared arguments of a step: one string, two strings, a string next
\* to a number and a nested mapping, and mappings nested in a mapping next to
\* a bool, a list and null
ResolveArgs ==
    {("x" :> StrV(str)) : str \in ArgStrings}
        \cup {[x |-> StrV("{a}"), y |-> StrV("{b}")],
              [x |-> StrV("{b}"), n |-> IntV(5), d |-> DictV([x |-> StrV("{a}-{zz}")])],
              [d |-> DictV([x |-> StrV("{a}"),
                            e |-> DictV([y |-> StrV("p{b}q"), n |-> IntV(7)]),
                            l |-> ListV(<<StrV("{b}")>>)]),
               f |-> BoolV(FALSE),
               l |-> ListV(<<StrV("{a}")>>),
               z |-> NoneV]}

\* an engine whose context was filled by the steps run so far
ResolveInit ==
    /\ os_seps = {"/"}
    /\ rules = <<>>
    /\ disk = [kind |-> "missing"]
    /\ writable = TRUE
    /\ op = NoCall
    /\ ret = None
    /\ workflow = NoneV
    /\ context \in ResolveContexts
    /\ trigger_context = NoneV
    /\ caller_context = NoneV
    /\ aliased = FALSE
    /\ wf_pc = "idle"
    /\ wf_i = 0
    /\ results = <<>>
    /\ tool_calls = <<>>
    /\ wf_return = None
    /\ wf_run = 0
    /\ first_run = None
    /\ tool_memo = <<>>
    /\ watcher = None
    /\ dirs = {}
    /\ thread_error = None
    /\ start_threads = <<>>
    /\ detached = {}
    /\ scan = NoScan
    /\ batch = NoBatch
    /\ timeline = <<>>
    /\ dispatch = NoDispatch

\* workflow_engine.py:114-147  a call of _resolve_variables(args)
ResolveVariables ==
    \E args \in ResolveArgs :
        /\ op' = [name |-> "_resolve_variables", args |-> args]
        /\ ret' = resolve_variables(args, context)
        /\ UNCHANGED <<os_seps, rules, disk, writable, wvars, cvars, pvars>>

ResolveNext == ResolveVariables

ResolveSpec == ResolveInit /\ [][ResolveNext]_vars

-----------------------------------------------------------------------------
(* FileWatcher (src/watcher.py) and its control API (src/app.py) *)

MaxObservers == 3

\* Observer(): a thread that was not started; id tells the instances apart,
\* scheduled lists the paths of the schedule calls made on it, stopped tells
\* whether observer.stop() was called
new_observer(id) ==
    [id |-> id, started |-> FALSE, alive |-> FALSE, stopped |-> FALSE, scheduled |-> <<>>]

\* watcher.py:71-78  FileWatcher.__init__
new_watcher == [running |-> FALSE, observer |-> new_observer(1)]

\* watcher.py:113-123  FileWatcher.is_running: what it returns
is_running(w) == w.running /\ w.observer.alive

\* watcher.py:113-123  FileWatcher.is_running: the watcher it leaves, the flag
\* reset when the thread has died
after_is_running_flag_kept(w) == w

after_is_running(w) ==
    IF w.running /\ ~w.observer.alive THEN [w EXCEPT !.running = FALSE] ELSE w

\* watcher.py:88-95  the schedule calls of start, one per path
scheduled_paths(w, paths) == [w EXCEPT !.observer.scheduled = @ \o paths]

\* watcher.py:97  observer.start(): Thread.start raises RuntimeError when the
\* thread was started before
observer_start_raises(w) == w.observer.started

\* watcher.py:80-100  FileWatcher.start with paths the watched paths: the
\* watcher it leaves
after_start(w, paths) ==
    IF paths = <<>> THEN w
    ELSE IF observer_start_raises(scheduled_paths(w, paths))
    THEN scheduled_paths(w, paths)
    ELSE [scheduled_paths(w, paths) EXCEPT !.observer.started = TRUE,
                                           !.observer.alive = TRUE,
                                           !.running = TRUE]

\* watcher.py:80-100  FileWatcher.start: the exception it ends with, if any
start_raises(w, paths) ==
    IF paths # <<>> /\ observer_start_raises(w) THEN "RuntimeError" ELSE None

\* watcher.py:90-92  the directories after start created the missing ones
after_makedirs(ds, paths) == ds \cup Range(paths)

\* watcher.py:102-111  FileWatcher.stop: the watcher it leaves
after_stop(w) ==
    IF w.running
    THEN [w EXCEPT !.observer.stopped = TRUE, !.observer.alive = FALSE,
                   !.running = FALSE]
    ELSE w

\* app.py:119-120  start_watcher returns at once when the watcher is running
start_watcher_passes_never(w) == FALSE

start_watcher_passes(w) == is_running(w)

\* app.py:123-125  a watcher that is neither alive nor flagged running gets a
\* new observer before it is started
with_fresh_observer(w) ==
    IF ~w.observer.alive /\ w.running = FALSE
    THEN [w EXCEPT !.observer = new_observer(w.observer.id + 1)]
    ELSE w

\* the rules the watcher's rule engine may have loaded
WatchRulePool == {
    [id |-> "w1", enabled |-> TRUE,
     trigger |-> [type |-> "file_created", path |-> Path_a]],
    [id |-> "w2", trigger |-> [type |-> "file_created", path |-> Path_c]],
    [id |-> "w3", enabled |-> FALSE,
     trigger |-> [type |-> "file_created", path |-> Path_ab]]
}

\* get_watcher(): the singleton is constructed, its rule engine has loaded
\* the rules, nothing is started
WatchInit ==
    /\ os_seps = {"/"}
    /\ rules \in RuleLists(WatchRulePool, 2)
    /\ disk = [kind |-> "ok", rules |-> rules]
    /\ writable = TRUE
    /\ op = NoCall
    /\ ret = None
    /\ workflow = NoneV
    /\ context = EmptyDict
    /\ trigger_context = NoneV
    /\ caller_context = NoneV
    /\ aliased = FALSE
    /\ wf_pc = "idle"
    /\ wf_i = 0
    /\ results = <<>>
    /\ tool_calls = <<>>
    /\ wf_return = None
    /\ wf_run = 0
    /\ first_run = None
    /\ tool_memo = <<>>
    /\ watcher = new_watcher
    /\ dirs \in SUBSET {Path_a}
    /\ thread_error = None
    /\ start_threads = <<>>
    /\ detached = {}
    /\ scan = NoScan
    /\ batch = NoBatch
    /\ timeline = <<>>
    /\ dispatch = NoDispatch

\* app.py:113-134  POST /api/watcher/start; the background thread it starts
\* runs FileWatcher.start to its end before the next request is served
StartWatcher ==
    /\ op' = [name |-> "start_watcher"]
    /\ IF start_watcher_passes(watcher)
       THEN /\ ret' = "Watcher already running"
            /\ watcher' = after_is_running(watcher)
            /\ UNCHANGED <<dirs, thread_error>>
       ELSE \E paths \in get_watched_paths(rules) :
               LET w == with_fresh_observer(after_is_running(watcher))
               IN  /\ w.observer.id <= MaxObservers
                   /\ ret' = "Watcher started"
                   /\ watcher' = after_start(w, paths)
                   /\ dirs' = after_makedirs(dirs, paths)
                   /\ thread_error' = start_raises(w, paths)
    /\ UNCHANGED <<os_seps, rules, disk, writable, wvars, start_threads, detached, pvars>>

\* app.py:137-142  POST /api/watcher/stop
StopWatcher ==
    /\ op' = [name |-> "stop_watcher"]
    /\ ret' = "Watcher stopped"
    /\ watcher' = after_stop(watcher)
    /\ UNCHANGED <<os_seps, rules, disk, writable, wvars, dirs, thread_error,
                   start_threads, detached, pvars>>

\* app.py:102-110  GET /api/watcher/status
WatcherStatus ==
    /\ op' = [name |-> "watcher_status"]
    /\ ret' = is_running(watcher)
    /\ watcher' = after_is_running(watcher)
    /\ UNCHANGED <<os_seps, rules, disk, writable, wvars, dirs, thread_error,
                   start_threads, detached, pvars>>

\* the observer thread ends unexpectedly
ObserverDies ==
    /\ watcher.observer.alive
    /\ watcher' = [watcher EXCEPT !.observer.alive = FALSE]
    /\ UNCHANGED <<rvars, wvars, dirs, thread_error, start_threads, detached, pvars>>

WatchNext == StartWatcher \/ StopWatcher \/ WatcherStatus \/ ObserverDies

WatchSpec == WatchInit /\ [][WatchNext]_vars

-----------------------------------------------------------------------------
(* The watcher with its background start thread: start_watcher hands        *)
(* FileWatcher.start to a thread and answers after a sleep, so the next     *)
(* requests are served while that thread is between two of its statements   *)

MaxStartThreads == 2

\* threading.Thread(target=watcher.start): a thread about to run start; paths
\* is its local `paths`, obs the observer its observer.start() call is in
new_start_thread == [pc |-> "paths", paths |-> <<>>, obs |-> 0]

\* every Observer instance made so far
observers == {watcher.observer} \cup detached

\* the watcher and the detached observers after the observer with this id
\* became alive: its thread runs unless stop() was called on it before
observer_alive(w, id) ==
    IF w.observer.id = id
    THEN [w EXCEPT !.observer.alive = ~w.observer.stopped]
    ELSE w

detached_alive(det, id) ==
    {IF o.id = id THEN [o EXCEPT !.alive = ~o.stopped] ELSE o : o \in det}

RaceInit == WatchInit

\* app.py:113-134  POST /api/watcher/start: the request is answered while the
\* thread it started has not run yet
StartRequest ==
    /\ op' = [name |-> "start_watcher"]
    /\ IF start_watcher_passes(watcher)
       THEN /\ ret' = "Watcher already running"
            /\ watcher' = after_is_running(watcher)
            /\ UNCHANGED <<start_threads, detached>>
       ELSE /\ Len(start_threads) < MaxStartThreads
            /\ with_fresh_observer(after_is_running(watcher)).observer.id <= MaxObservers
            /\ ret' = "Watcher started"
            /\ watcher' = with_fresh_observer(after_is_running(watcher))
            /\ detached' = IF watcher'.observer.id # watcher.observer.id
                           THEN detached \cup {watcher.observer}
                           ELSE detached
            /\ start_threads' = Append(start_threads, new_start_thread)
    /\ UNCHANGED <<os_seps, rules, disk, writable, wvars, dirs, thread_error, pvars>>

\* watcher.py:82-86  the thread reads the watched paths and ends when there
\* are none
StartThreadPaths ==
    \E t \in DOMAIN start_threads :
        /\ start_threads[t].pc = "paths"
        /\ \E paths \in get_watched_paths(rules) :
               start_threads' = [start_threads EXCEPT
                   ![t].paths = paths,
                   ![t].pc = IF paths = <<>> THEN "done" ELSE "schedule"]
        /\ UNCHANGED <<rvars, wvars, watcher, dirs, thread_error, detached, pvars>>

\* watcher.py:88-95  the thread creates the missing directories and schedules
\* its paths on the observer the watcher refers to
StartThreadSchedule ==
    \E t \in DOMAIN start_threads :
        /\ start_threads[t].pc = "schedule"
        /\ watcher' = scheduled_paths(watcher, start_threads[t].paths)
        /\ dirs' = after_makedirs(dirs, start_threads[t].paths)
        /\ start_threads' = [start_threads EXCEPT ![t].pc = "start"]
        /\ UNCHANGED <<rvars, wvars, thread_error, detached, pvars>>

\* watcher.py:97  the thread calls self.observer.start(): RuntimeError when
\* that observer was started before, else the observer's thread is launched
StartThreadObserverStart ==
    \E t \in DOMAIN start_threads :
        /\ start_threads[t].pc = "start"
        /\ IF observer_start_raises(watcher)
           THEN /\ thread_error' = "RuntimeError"
                /\ start_threads' = [start_threads EXCEPT ![t].pc = "done"]
                /\ UNCHANGED watcher
           ELSE /\ watcher' = [watcher EXCEPT !.observer.started = TRUE]
                /\ start_threads' = [start_threads EXCEPT
                       ![t].pc = "alive", ![t].obs = watcher.observer.id]
                /\ UNCHANGED thread_error
        /\ UNCHANGED <<rvars, wvars, dirs, detached, pvars>>

\* watcher.py:97  observer.start() returns: the observer's thread is alive
StartThreadObserverAlive ==
    \E t \in DOMAIN start_threads :
        /\ start_threads[t].pc = "alive"
        /\ watcher' = observer_alive(watcher, start_threads[t].obs)
        /\ detached' = detached_alive(detached, start_threads[t].obs)
        /\ start_threads' = [start_threads EXCEPT ![t].pc = "flag"]
        /\ UNCHANGED <<rvars, wvars, dirs, thread_error, pvars>>

\* watcher.py:98  self._running = True
StartThreadFlag ==
    \E t \in DOMAIN start_threads :
        /\ start_threads[t].pc = "flag"
        /\ watcher' = [watcher EXCEPT !.running = TRUE]
        /\ start_threads' = [start_threads EXCEPT ![t].pc = "done"]
        /\ UNCHANGED <<rvars, wvars, dirs, thread_error, detached, pvars>>

RaceNext ==
    \/ StartRequest
    \/ StopWatcher
    \/ WatcherStatus
    \/ StartThreadPaths
    \/ StartThreadSchedule
    \/ StartThreadObserverStart
    \/ StartThreadObserverAlive
    \/ StartThreadFlag

RaceSpec == RaceInit /\ [][RaceNext]_vars

-----------------------------------------------------------------------------
(* Action dispatch (src/workers.py) and the process-all request             *)
(* (src/app.py): one rule's action run on every file of its input folder    *)

MaxFiles == 3

\* str.endswith(suffix)
endswith(s, suffix) ==
    Len(s) >= Len(suffix) /\ SubSeq(s, Len(s) - Len(suffix) + 1, Len(s)) = suffix

\* workers.py:127-158  the action types ACTION_HANDLERS maps to a handler
ActionHandlers == {"process_txt", "process_xlsx", "open_in_notepad", "run_workflow"}

\* workers.py:141  execute_workflow(file_path, output_path, args=None) is the
\* handler that takes args; process_txt, process_xlsx and
\* process_output_and_open_notepad take the two paths only
accepts_args(action_type) == action_type = "run_workflow"

\* app.py:318  the tools that drive the desktop
GuiTools == {"open_notepad", "open_excel", "open_browser"}

\* the folders a workflow file may be in: config/workflows and, for files of
\* older versions, config
WorkflowsDir == "config/workflows"
LegacyDir    == "config"

\* workers.py:146-148, app.py:310-312  the file name of the workflow args names
workflow_file_name(args) ==
    LET workflow_name ==
            Get(IF Falsy(args) THEN EmptyDict ELSE args.d, "workflow_name", "workflow.json")
    IN  IF endswith(workflow_name, ".json") THEN workflow_name
        ELSE workflow_name \o ".json"

\* the workflow files of folder dir named name
files_at(store, dir, name) == {f \in store : f.dir = dir /\ f.name = name}

\* workers.py:150-156  the workflow file execute_workflow runs: the one in
\* config/workflows, else the one in config; the empty set when there is none
workflow_found(store, name) ==
    IF files_at(store, WorkflowsDir, name) # {} THEN files_at(store, WorkflowsDir, name)
    ELSE files_at(store, LegacyDir, name)

\* whether this workflow file names a tool that drives the desktop
runs_gui_tool(f) == f.actions.t = "list" /\ Range(f.actions.l) \cap GuiTools # {}

\* how a run of this workflow file may end: it succeeds or fails, and it
\* drove the desktop when it got to a GUI step, which a failed run may not have
workflow_runs(f) ==
    {run \in [ok : BOOLEAN, gui : BOOLEAN] :
        /\ run.gui => runs_gui_tool(f)
        /\ (run.ok /\ runs_gui_tool(f)) => run.gui}

\* the content of a workflow file that is not JSON
Unparsable == [t |-> "unparsable"]

\* a call of a handler: whether it was given args, whether its body ran,
\* whether it drove the desktop, and how it ended
HandlerCall(action_type, with_args, body, gui, outcome) ==
    [handler |-> action_type, with_args |-> with_args, body |-> body, gui |-> gui,
     outcome |-> outcome]

\* workers.py:141-158  the body of execute_workflow: what a call may do
execute_workflow(args, with_args, store) ==
    LET found == workflow_found(store, workflow_file_name(args))
    IN  IF found = {}
        THEN {HandlerCall("run_workflow", with_args, TRUE, FALSE,
                          Returns([success |-> FALSE, error |-> "workflow not found"]))}
        ELSE UNION {
            IF f.actions = Unparsable
            THEN \* workflow_engine.py:25-30  json.load raises in WorkflowEngine()
                 {HandlerCall("run_workflow", with_args, TRUE, FALSE,
                              Raises("JSONDecodeError"))}
            ELSE IF f.actions.t # "list"
            THEN \* workflow_engine.py:51-54  len(actions) of what is not a list
                 {HandlerCall("run_workflow", with_args, TRUE, FALSE, Raises("TypeError"))}
            ELSE {HandlerCall("run_workflow", with_args, TRUE, run.gui,
                              Returns([success |-> run.ok])) : run \in workflow_runs(f)}
            : f \in found}

\* workers.py:9-125, actions.py:147-181  the bodies of the handlers that take
\* no args: each catches every exception and returns a result
two_path_handler(action_type, with_args) ==
    {HandlerCall(action_type, with_args, TRUE, action_type = "open_in_notepad",
                 Returns([success |-> ok])) : ok \in BOOLEAN}

\* handler(file_path, output_path, args=args) or handler(file_path,
\* output_path): a call with args of a handler that takes none raises
\* TypeError before its body runs
handler_call(action_type, args, with_args, store) ==
    IF with_args /\ ~accepts_args(action_type)
    THEN {HandlerCall(action_type, with_args, FALSE, FALSE, Raises("TypeError"))}
    ELSE IF action_type = "run_workflow" THEN execute_workflow(args, with_args, store)
    ELSE two_path_handler(action_type, with_args)

\* workers.py:177-180  whether execute_action calls the handler again, with
\* the two paths only, after the first call ended with first
falls_back(first) == first.outcome.kind = "raise" /\ first.outcome.message = "TypeError"

\* workers.py:167-180  execute_action(action_type, file_path, output_path,
\* args): the calls of the handler it makes and how it ends
execute_action(action_type, args, store) ==
    IF action_type \notin ActionHandlers
    THEN {[calls |-> <<>>,
           outcome |-> Returns([success |-> FALSE, error |-> "Unknown action type"])]}
    ELSE UNION {
        IF falls_back(first)
        THEN {[calls |-> <<first, second>>, outcome |-> second.outcome] :
                 second \in handler_call(action_type, NoneV, FALSE, store)}
        ELSE {[calls |-> <<first>>, outcome |-> first.outcome]}
        : first \in handler_call(action_type, args, TRUE, store)}

\* app.py:307-321  is_gui_action: the action type is open_in_notepad, or it is
\* run_workflow and the workflow file in config/workflows names a GUI tool
is_gui_action(action, store) ==
    \/ action.type = "open_in_notepad"
    \/ /\ action.type = "run_workflow"
       /\ \E f \in files_at(store, WorkflowsDir, workflow_file_name(action.args)) :
              runs_gui_tool(f)

\* app.py:329-340  whether the loop skips the file: the rule lists extensions
\* and the file's is not one of them
skips_file(extensions, filename) ==
    extensions # {} /\ event_file_ext(filename, {"/"}) \notin extensions

\* app.py:357-358  time.sleep(2) after the action of a file
pacing(is_gui) == IF is_gui THEN <<[kind |-> "sleep"]>> ELSE <<>>

\* what execute_action does on the request's thread, in order: it is entered,
\* the handler is called once or twice, it is left
dispatched(filename, run) ==
    <<[kind |-> "execute_action", file |-> filename]>>
        \o [k \in DOMAIN run.calls |-> [kind |-> "handler", file |-> filename,
                                         call |-> run.calls[k]]]
        \o <<[kind |-> "done", file |-> filename, outcome |-> run.outcome]>>

\* app.py:345-351  the entry of results for a file
batch_result(filename, outcome) ==
    [filename |-> filename,
     success  |-> outcome.kind = "return" /\ Get(outcome.value, "success", FALSE)]

\* the actions of the rules a batch may be asked for
BatchActions == {
    [type |-> "process_txt", args |-> DictV(EmptyDict)],
    [type |-> "open_in_notepad", args |-> DictV(EmptyDict)],
    [type |-> "run_workflow", args |-> DictV([workflow_name |-> "wf"])],
    [type |-> "run_workflow", args |-> DictV(EmptyDict)],
    [type |-> "no_such_action", args |-> DictV(EmptyDict)]
}

\* a workflow file
WorkflowFile(dir, name, acts) == [dir |-> dir, name |-> name, actions |-> acts]

\* the workflow files on disk: none; a workflow of file tools; a workflow with
\* a GUI tool, in config/workflows or in config; a workflow whose actions is
\* null, next to a default workflow
WorkflowStores == {
    {},
    {WorkflowFile(WorkflowsDir, "wf.json", ListV(<<"read_file", "save_to_output">>))},
    {WorkflowFile(WorkflowsDir, "wf.json", ListV(<<"read_file", "open_notepad">>))},
    {WorkflowFile(LegacyDir, "wf.json", ListV(<<"read_file", "open_notepad">>))},
    {WorkflowFile(WorkflowsDir, "wf.json", NoneV),
     WorkflowFile(LegacyDir, "workflow.json", ListV(<<"read_file">>))}
}

\* the names os.listdir(input_path) may give
InputFiles == {"f.txt", "g.txt", "h.x"}

\* app.py:282-325  POST /api/rules/<rule_id>/process-all arrives: the rule is
\* read, is_gui_action is decided, the folder is listed
BatchStart ==
    \E action \in BatchActions, store \in WorkflowStores,
       listing \in RuleLists(InputFiles, MaxFiles) :
        /\ batch.pc = "idle"
        /\ batch' = [pc |-> "loop", action |-> action, store |-> store,
                     extensions |-> {".txt"},
                     is_gui |-> is_gui_action(action, store),
                     listing |-> listing, k |-> 1,
                     results |-> <<>>, success_count |-> 0]
        /\ timeline' = <<>>
        /\ UNCHANGED <<rvars, wvars, cvars, scan, dispatch>>

\* app.py:329-358  one iteration of the loop over the listing
BatchFile ==
    /\ batch.pc = "loop"
    /\ batch.k <= Len(batch.listing)
    /\ LET filename == batch.listing[batch.k]
       IN  IF skips_file(batch.extensions, filename)
           THEN /\ batch' = [batch EXCEPT !.k = @ + 1]
                /\ UNCHANGED timeline
           ELSE \E run \in execute_action(batch.action.type, batch.action.args, batch.store) :
                   /\ batch' = [batch EXCEPT
                          !.k = @ + 1,
                          !.results = Append(@, batch_result(filename, run.outcome)),
                          !.success_count =
                              IF batch_result(filename, run.outcome).success
                              THEN @ + 1 ELSE @]
                   /\ timeline' = timeline \o dispatched(filename, run)
                                     \o pacing(batch.is_gui)
    /\ UNCHANGED <<rvars, wvars, cvars, scan, dispatch>>

\* app.py:360-367  the request is answered
BatchReturn ==
    /\ batch.pc = "loop"
    /\ batch.k > Len(batch.listing)
    /\ batch' = [batch EXCEPT !.pc = "returned"]
    /\ op' = [name |-> "process_all_files"]
    /\ ret' = [success |-> batch.success_count > 0, processed |-> batch.success_count,
               results |-> batch.results]
    /\ UNCHANGED <<os_seps, rules, disk, writable, wvars, cvars, scan, timeline, dispatch>>

\* the control plane is up, no request is being served
BatchInit == WatchInit /\ rules = <<>> /\ dirs = {}

BatchNext == BatchStart \/ BatchFile \/ BatchReturn

BatchSpec == BatchInit /\ [][BatchNext]_vars

-----------------------------------------------------------------------------
(* The dispatch specification: FileEventHandler._process_file               *)
(* (src/watcher.py) handles one filesystem event on the observer thread     *)

\* the rules of the store: three that watch the folder of the event, with
\* a built-in action, a workflow and no action, and one that watches another
\* folder
DispatchRulePool == {
    [id |-> "rule_001", name |-> "n1",
     trigger |-> [type |-> "file_created", path |-> Path_ab, extensions |-> {}],
     action |-> [type |-> "process_txt", output_path |-> "/out"]],
    [id |-> "rule_002", name |-> "n2",
     trigger |-> [type |-> "file_created", path |-> Path_ab, extensions |-> {}],
     action |-> [type |-> "run_workflow", args |-> DictV([workflow_name |-> "wf"])]],
    [id |-> "rule_003", name |-> "n3",
     trigger |-> [type |-> "file_created", path |-> Path_ab, extensions |-> {}]],
    [id |-> "rule_004", name |-> "n4",
     trigger |-> [type |-> "file_created", path |-> Path_c, extensions |-> {}],
     action |-> [type |-> "process_txt"]]
}

\* the workflow files on disk: a workflow of file tools, a file that is not
\* JSON, none
DispatchStores == {
    {WorkflowFile(WorkflowsDir, "wf.json", ListV(<<"read_file", "save_to_output">>))},
    {WorkflowFile(WorkflowsDir, "wf.json", Unparsable)},
    {}
}

\* the file of the event
DispatchFile == "/a/b/f.t"

\* watcher.py:43-44  action.get('type') of rule.get('action', {})
action_type_of(rule) ==
    IF "action" \in DOMAIN rule /\ "type" \in DOMAIN rule.action
    THEN rule.action.type ELSE None

\* watcher.py:50  action.get('args', {})
action_args_of(rule) == Get(rule.action, "args", DictV(EmptyDict))

\* what execute_action does for a rule on the observer thread, in order
rule_dispatched(rule_id, run) ==
    <<[kind |-> "execute_action", rule |-> rule_id]>>
        \o [k \in DOMAIN run.calls |-> [kind |-> "handler", rule |-> rule_id,
                                         call |-> run.calls[k]]]
        \o <<[kind |-> "done", rule |-> rule_id, outcome |-> run.outcome]>>

DispatchInit ==
    /\ os_seps = {"/"}
    /\ rules \in RuleLists(DispatchRulePool, MaxRules)
    /\ disk = [kind |-> "ok", rules |-> rules]
    /\ writable = TRUE
    /\ op = NoCall
    /\ ret = None
    /\ WorkflowEngineUnused

\* watcher.py:26-38  an event for a file arrives: the matching rules are
\* found, and _process_file returns when there is none
ProcessFileStart ==
    \E store \in DispatchStores :
        /\ dispatch.pc = "idle"
        /\ LET matching_rules ==
                   find_matching_rules(rules, DispatchFile, "file_created", os_seps)
           IN  dispatch' = [pc |-> IF matching_rules = <<>> THEN "returned" ELSE "loop",
                            store |-> store, matching_rules |-> matching_rules, k |-> 1]
        /\ timeline' = <<>>
        /\ UNCHANGED <<rvars, wvars, cvars, scan, batch>>

\* watcher.py:41-52  one iteration of the loop over the matching rules; an
\* exception of execute_action leaves _process_file
ProcessFileRule ==
    /\ dispatch.pc = "loop"
    /\ dispatch.k <= Len(dispatch.matching_rules)
    /\ LET rule == dispatch.matching_rules[dispatch.k]
       IN  IF action_type_of(rule) = None
           THEN /\ dispatch' = [dispatch EXCEPT !.k = @ + 1]
                /\ UNCHANGED timeline
           ELSE \E run \in execute_action(action_type_of(rule), action_args_of(rule),
                                          dispatch.store) :
                   /\ timeline' = timeline \o rule_dispatched(rule.id, run)
                   /\ dispatch' = IF run.outcome.kind = "raise"
                                  THEN [dispatch EXCEPT !.pc = "raised"]
                                  ELSE [dispatch EXCEPT !.k = @ + 1]
    /\ UNCHANGED <<rvars, wvars, cvars, scan, batch>>

\* watcher.py:41  the loop is over
ProcessFileReturn ==
    /\ dispatch.pc = "loop"
    /\ dispatch.k > Len(dispatch.matching_rules)
    /\ dispatch' = [dispatch EXCEPT !.pc = "returned"]
    /\ UNCHANGED <<rvars, wvars, cvars, scan, batch, timeline>>

DispatchNext == ProcessFileStart \/ ProcessFileRule \/ ProcessFileReturn

DispatchSpec == DispatchInit /\ [][DispatchNext]_vars

-----------------------------------------------------------------------------
(* Properties of the workflow engine *)

\* step k was recorded as failed and its stop_on_fail is true or absent
StoppingFailure(k) ==
    /\ k \in DOMAIN results
    /\ ~results[k].success
    /\ ("stop_on_fail" \in DOMAIN actions[k] => actions[k].stop_on_fail)

\* the tool of recorded step k returned a result (it did not raise)
ToolReturned(k) == "result" \in DOMAIN results[k]

\* no later recorded step up to step n wrote the context keys of step k
LastWriter(k, n) ==
    \A j \in (k + 1)..n : ToolReturned(j) => results[j].step_id # results[k].step_id

\* ctx holds what the run accumulated up to recorded step n: every entry of
\* the trigger context, and the result and success flag of every step whose
\* tool returned
HoldsAccumulated(ctx, n) ==
    /\ trigger_context.t = "dict" =>
           \A key \in DOMAIN trigger_context.d :
               key \in DOMAIN ctx /\ ctx[key] = trigger_context.d[key]
    /\ "workflow.name" \in DOMAIN ctx
    /\ \A k \in 1..n :
           (ToolReturned(k) /\ LastWriter(k, n)) =>
               /\ (results[k].step_id \o ".success") \in DOMAIN ctx
               /\ ctx[results[k].step_id \o ".success"] = BoolV(results[k].success)
               /\ (results[k].step_id \o ".result") \in DOMAIN ctx
               /\ ctx[results[k].step_id \o ".result"] =
                      (IF "result" \in DOMAIN results[k].result
                       THEN results[k].result.result ELSE StrV(""))

\* C10: when a step fails and its stop_on_fail is true or absent, execute
\* invokes no later step: the failing step is the last tool call and the last
\* of the results, and execute returns success = false, those results, and
\* the context accumulated up to that step.
C10_stop_on_fail ==
    \A k \in DOMAIN results :
        StoppingFailure(k) =>
            /\ k = Len(results)
            /\ Len(tool_calls) = k
            /\ tool_calls[k].step = k
            /\ wf_pc \in {"break", "returned"}
            /\ wf_pc = "returned" =>
                   /\ wf_return.success = FALSE
                   /\ wf_return.results = results
                   /\ wf_return.context = context
                   /\ HoldsAccumulated(wf_return.context, k)

\* execute returned after the second of three steps failed with a returned
\* failure, stop_on_fail absent, the trigger context given
C10_witness ==
    /\ wf_pc = "returned"
    /\ Len(actions) = 3
    /\ Len(results) = 2
    /\ results[1].success
    /\ StoppingFailure(2)
    /\ ToolReturned(2)
    /\ "stop_on_fail" \notin DOMAIN actions[2]
    /\ trigger_context.t = "dict"

\* step k was recorded as failed and its stop_on_fail is false
ContinuingFailure(k) ==
    /\ k \in DOMAIN results
    /\ ~results[k].success
    /\ "stop_on_fail" \in DOMAIN actions[k]
    /\ ~actions[k].stop_on_fail

\* the loop of execute is over: it broke out, returned, or let an exception out
LoopOver == wf_pc \in {"break", "returned", "raised"}

\* C11: when a step fails and its stop_on_fail is false, execute continues
\* with the next declared step, whether the tool returned success = false or
\* raised an exception; execute stops before the last declared step only if
\* a failing step had stop_on_fail true or absent.
C11_failure_continues ==
    /\ \A k \in DOMAIN results :
           (ContinuingFailure(k) /\ k < Len(actions)) =>
               \/ Len(tool_calls) > k
               \/ wf_pc = "loop" /\ wf_i = k + 1
    /\ (wf_pc \in {"break", "returned"} /\ Len(results) < Len(actions)) =>
           StoppingFailure(Len(results))

\* C12: a tool invocation that raises an exception, the lookup failure of an
\* unregistered tool name included, never propagates out of execute: it is
\* recorded in results as a StepResult with success = false whose error is
\* the exception's message, and execute returns those results.
C12_tool_exception_recorded ==
    \A k \in DOMAIN tool_calls :
        tool_calls[k].outcome.kind = "raise" =>
            /\ wf_pc \in {"break", "returned"}
            /\ Len(results) = k
            /\ results[k].step_id = step_id_of(actions[k], k)
            /\ results[k].tool = tool_calls[k].tool
            /\ results[k].success = FALSE
            /\ "error" \in DOMAIN results[k]
            /\ results[k].error = tool_calls[k].outcome.message
            /\ wf_pc = "returned" =>
                   /\ wf_return.results = results
                   /\ wf_return.success = FALSE

\* execute returned after the first step succeeded and the second step named
\* a tool that is not registered
C12_witness ==
    /\ wf_pc = "returned"
    /\ Len(tool_calls) = 2
    /\ tool_calls[2].tool \notin RegisteredTools
    /\ tool_calls[2].outcome = unregistered(tool_calls[2].tool)
    /\ results[2].error = "unregistered tool: no_such_tool"

\* the tool call of step k returned a result whose success flag is true
ToolSucceeded(k) ==
    /\ tool_calls[k].outcome.kind = "return"
    /\ Get(tool_calls[k].outcome.value, "success", FALSE)

\* C13: the overall success execute returns is the logical AND of the success
\* flags of all recorded StepResults, each flag being that of its tool call; a
\* failed step with stop_on_fail = false makes it false whatever the later
\* steps did.
C13_success_is_conjunction ==
    (wf_pc = "returned" /\ "results" \in DOMAIN wf_return) =>
        /\ Len(wf_return.results) = Len(tool_calls)
        /\ \A k \in DOMAIN tool_calls :
               wf_return.results[k].success = ToolSucceeded(k)
        /\ wf_return.success = (\A k \in DOMAIN tool_calls : ToolSucceeded(k))
        /\ (\E k \in DOMAIN results : ContinuingFailure(k)) => ~wf_return.success

\* execute returned success = false after three steps of which only the second
\* failed, with stop_on_fail = false
C13_witness ==
    /\ wf_pc = "returned"
    /\ Len(tool_calls) = 3
    /\ wf_return.results = results
    /\ ToolSucceeded(1)
    /\ ContinuingFailure(2)
    /\ ToolSucceeded(3)
    /\ ~wf_return.success

\* C14: executing a loaded workflow that has no actions returns success =
\* true with an empty results sequence and a context.
C14_no_actions_succeeds ==
    (wf_pc = "returned" /\ workflow.t = "dict"
                       /\ Get(workflow.d, "actions", <<>>) = <<>>) =>
        /\ wf_return.success = TRUE
        /\ "results" \in DOMAIN wf_return
        /\ wf_return.results = <<>>
        /\ "context" \in DOMAIN wf_return

-----------------------------------------------------------------------------
(* Properties of variable resolution *)

IsResolve == op.name = "_resolve_variables"

\* the declared string arguments of the last call of _resolve_variables
StringArgs == {key \in DOMAIN op.args : op.args[key].t = "str"}

\* the keys of the context whose placeholder is the whole of string value
WholePlaceholderKeys(value) == {k \in DOMAIN context : value = "{" \o k \o "}"}

\* C15: when an argument string is exactly one placeholder "{key}" and key is
\* in the context, the resolved argument is the raw context value with its
\* original type (number, bool, nested structure), not its string form.
C15_whole_placeholder_keeps_type ==
    IsResolve =>
        \A key \in StringArgs :
            \A k \in WholePlaceholderKeys(op.args[key].s) :
                key \in DOMAIN ret /\ ret[key] = context[k]

\* a call resolved "{a}" to the number 42 and "{b}" to a nested structure
C15_witness ==
    /\ IsResolve
    /\ DOMAIN op.args = {"x", "y"}
    /\ op.args.x = StrV("{a}") /\ op.args.y = StrV("{b}")
    /\ {"a", "b"} \subseteq DOMAIN context
    /\ ret.x = IntV(42)
    /\ ret.y.t = "dict"

\* value with each placeholder occurrence, read from the left as
\* re.findall reads it, replaced by the text of its context value when its
\* identifier is a context key, every other character kept
RECURSIVE SubstitutedOnce(_, _)
SubstitutedOnce(value, ctx) ==
    LET open  == find_char(value, "{", 1)
        close == IF open = 0 THEN 0 ELSE find_char(value, "}", open + 1)
        key   == SubSeq(value, open + 1, close - 1)
    IN  IF open = 0 \/ close = 0 THEN value
        ELSE IF close = open + 1
        THEN SubSeq(value, 1, open)
                 \o SubstitutedOnce(SubSeq(value, open + 1, Len(value)), ctx)
        ELSE SubSeq(value, 1, open - 1)
                 \o (IF key \in DOMAIN ctx THEN py_str(ctx[key]) ELSE "{" \o key \o "}")
                 \o SubstitutedOnce(SubSeq(value, close + 1, Len(value)), ctx)

\* the identifiers of the placeholders of string value
Identifiers(value) == Range(findall_placeholders(value, 1))

\* C16: when a placeholder whose key is in the context is embedded in a
\* larger argument string, every occurrence of that placeholder is replaced by
\* the stringified context value and every other character of the argument is
\* left unchanged; the result is a string.
C16_embedded_placeholder_substituted ==
    IsResolve =>
        \A key \in StringArgs :
            LET value == op.args[key].s
            IN  (/\ Identifiers(value) \subseteq DOMAIN context
                 /\ Identifiers(value) # {}
                 /\ WholePlaceholderKeys(value) = {}) =>
                    ret[key] = StrV(SubstitutedOnce(value, context))

\* str.find(sub, i): the first index >= i where sub occurs in s, 0 when none
RECURSIVE find_str(_, _, _)
find_str(s, sub, i) ==
    IF i + Len(sub) - 1 > Len(s) THEN 0
    ELSE IF SubSeq(s, i, i + Len(sub) - 1) = sub THEN i
    ELSE find_str(s, sub, i + 1)

\* the strings of parts occur in s one after the other, from index i on
RECURSIVE OccurInOrder(_, _, _)
OccurInOrder(s, parts, i) ==
    IF parts = <<>> THEN TRUE
    ELSE LET at == find_str(s, Head(parts), i)
         IN  at # 0 /\ OccurInOrder(s, Tail(parts), at + Len(Head(parts)))

\* the placeholders of string value whose identifier is not a context key, as
\* their literal text, in order
RECURSIVE UnknownPlaceholders(_, _)
UnknownPlaceholders(matches, ctx) ==
    IF matches = <<>> THEN <<>>
    ELSE (IF Head(matches) \in DOMAIN ctx THEN <<>> ELSE <<"{" \o Head(matches) \o "}">>)
             \o UnknownPlaceholders(Tail(matches), ctx)

\* no value of the context reads as text with a brace in it
NoBraceInContext == \A k \in DOMAIN context : find_char(py_str(context[k]), "{", 1) = 0

\* C17: a placeholder whose identifier is not a context key is left as its
\* literal text in the resolved argument, resolution of the other placeholders
\* of the same argument continues, and no error is raised.
C17_unknown_placeholder_literal ==
    IsResolve =>
        \A key \in StringArgs :
            LET value   == op.args[key].s
                unknown == UnknownPlaceholders(findall_placeholders(value, 1), context)
            IN  unknown # <<>> =>
                    /\ key \in DOMAIN ret
                    /\ ret[key].t = "str"
                    /\ OccurInOrder(ret[key].s, unknown, 1)
                    /\ NoBraceInContext =>
                           \A k \in Identifiers(value) \cap DOMAIN context :
                               find_str(ret[key].s, "{" \o k \o "}", 1) = 0

-----------------------------------------------------------------------------
(* Properties of repeated runs *)

\* ctx without the timestamp fields
WithoutTimestamps(ctx) ==
    [key \in DOMAIN ctx \ {"workflow.timestamp", "trigger.timestamp"} |-> ctx[key]]

StepKeys(rs) ==
    UNION {{rs[k].step_id \o ".result", rs[k].step_id \o ".success"} :
              k \in {j \in DOMAIN rs : "result" \in DOMAIN rs[j]}}

\* the first run is over and a fresh engine was made for the second
FirstRunKept == wf_run = 2 \/ (wf_run = 1 /\ wf_pc = "idle")

\* the initial context the caller built, before any run
OriginalContext == IF FirstRunKept THEN first_run.trigger_context ELSE trigger_context

OriginalKeys == IF OriginalContext.t = "dict" THEN DOMAIN OriginalContext.d ELSE {}

\* the keys the steps of any run so far have written
EverWrittenKeys ==
    StepKeys(results) \cup (IF FirstRunKept THEN StepKeys(first_run.results) ELSE {})

\* C19: the execution context is created fresh by each execute call and is not
\* shared between runs: a '<step>.result' or '<step>.success' key written
\* during one run is in the context of a run only if that run's own steps
\* wrote it, and it is not written into state owned by the caller.
C19_context_not_shared ==
    /\ wf_pc \in {"loop", "break", "returned"} =>
           (DOMAIN context \cap EverWrittenKeys) \subseteq (StepKeys(results) \cup OriginalKeys)
    /\ caller_context.t = "dict" =>
           (DOMAIN caller_context.d \cap EverWrittenKeys) \subseteq OriginalKeys

-----------------------------------------------------------------------------
(* Properties of the watcher *)

\* C20: starting the watch subscription while it is already running is a
\* no-op: the running flag stays true, no path is scheduled a second time, the
\* observer is not started again, and no error is raised.
C20_start_while_running_noop ==
    [][(StartWatcher /\ watcher.running /\ watcher.observer.alive) =>
           /\ watcher'.running
           /\ watcher'.observer = watcher.observer
           /\ thread_error' = None
           /\ ret' = "Watcher already running"]_vars

\* a start request was answered by a watcher that was running, with paths
\* scheduled on its observer
C20_witness ==
    /\ op.name = "start_watcher"
    /\ ret = "Watcher already running"
    /\ watcher.running /\ watcher.observer.alive
    /\ Len(watcher.observer.scheduled) = 2

\* C21: is_running() returns true only when the running flag is set and the
\* subscription thread is alive; when the flag is set but the thread has died
\* it returns false and resets the flag, so that every later status query
\* reports not running until a new start: only a start sets the flag again.
C21_is_running_resets_flag ==
    [][/\ WatcherStatus =>
              /\ ret' = (watcher.running /\ watcher.observer.alive)
              /\ (watcher.running /\ ~watcher.observer.alive) =>
                     (ret' = FALSE /\ ~watcher'.running)
              /\ ~watcher.running => (ret' = FALSE /\ ~watcher'.running)
       /\ (~watcher.running /\ watcher'.running) =>
              (op'.name = "start_watcher" /\ watcher'.observer.alive)]_vars

\* a status query answered "not running" on a watcher whose observer was
\* started and then ended without stop() being called: the flag is reset
C21_witness ==
    /\ op.name = "watcher_status"
    /\ ret = FALSE
    /\ watcher.observer.started
    /\ ~watcher.observer.stopped
    /\ ~watcher.observer.alive
    /\ ~watcher.running

\* every request was answered and every background start thread has ended
AllRequestsCompleted == \A t \in DOMAIN start_threads : start_threads[t].pc = "done"

\* C22: under every interleaving of start, stop and status requests, the
\* start request running FileWatcher.start on a background thread, at most
\* one watch subscription is running at a time: no second observer is alive,
\* no observer is started a second time, and once all requests have completed
\* the running flag agrees with the state of the watcher's observer.
C22_one_subscription ==
    /\ Cardinality({o \in observers : o.alive}) <= 1
    /\ thread_error = None
    /\ AllRequestsCompleted => (watcher.running = watcher.observer.alive)

-----------------------------------------------------------------------------
(* Properties of a scan that runs while the store changes *)

\* C23: when the rule store is reloaded or modified (load_rules, add_rule,
\* update_rule, delete_rule) concurrently with a find_matching_rules call, the
\* call's result equals the match computed over the rule list as it was when
\* the call started: no rule of that snapshot is skipped or evaluated twice
\* and no rule added later is included.
C23_match_on_snapshot ==
    scan.pc = "returned" =>
        scan.matching = find_matching_rules(scan.at_start, scan.file_path,
                                            scan.event_type, os_seps)

-----------------------------------------------------------------------------
(* Properties of action dispatch and of the batch run *)

\* the execute_action calls of the timeline, by the index of their entry
Dispatches == {i \in DOMAIN timeline : timeline[i].kind = "execute_action"}

\* the handler calls made by the execute_action call entered at index i
CallsOf(i) ==
    {j \in (i + 1)..Len(timeline) :
        \A m \in (i + 1)..j : timeline[m].kind = "handler"}

\* the handler calls of the timeline whose body ran
BodyRuns == {j \in DOMAIN timeline : timeline[j].kind = "handler" /\ timeline[j].call.body}

\* C24: execute_action first calls the handler with args and falls back to
\* the call with the two paths only on a signature mismatch: a handler that
\* accepts args is invoked exactly once per execute_action call, and a handler
\* that does not accept args runs its body exactly once, with the two
\* positional arguments.
C24_fallback_on_mismatch_only ==
    \A i \in Dispatches :
        \A j \in CallsOf(i) :
            LET call == timeline[j].call
            IN  /\ (j = i + 1) => call.with_args
                /\ (j > i + 1) =>
                       (~timeline[i + 1].call.body /\ ~accepts_args(call.handler))
                /\ accepts_args(call.handler) => CallsOf(i) = {i + 1}
                /\ ~accepts_args(call.handler) =>
                       /\ Cardinality(CallsOf(i) \cap BodyRuns) = 1
                       /\ \A b \in CallsOf(i) \cap BodyRuns : ~timeline[b].call.with_args

\* the handler calls that drove the desktop
GuiRuns == {j \in BodyRuns : timeline[j].call.gui}

\* C25: in a batch run for one rule the action invocations are serialized,
\* each starting only after the previous one has returned, and when the action
\* is a desktop-automation action a pacing delay elapses between any two
\* successive invocations.
C25_serialized_and_paced ==
    /\ \A i \in Dispatches :
           \E d \in (i + 1)..Len(timeline) :
               /\ timeline[d].kind = "done" /\ timeline[d].file = timeline[i].file
               /\ \A m \in (i + 1)..(d - 1) :
                      timeline[m].kind = "handler" /\ timeline[m].file = timeline[i].file
    /\ \A j \in DOMAIN timeline :
           timeline[j].kind = "handler" => \E i \in Dispatches : j \in CallsOf(i)
    /\ \A g, h \in GuiRuns :
           g < h => \E m \in (g + 1)..(h - 1) : timeline[m].kind = "sleep"

-----------------------------------------------------------------------------
(* Properties of loading the rule file *)

\* C26: loading rules from a missing or unparsable rule file never raises:
\* load_rules returns, it leaves the engine with an empty rule set, and
\* find_matching_rules then returns an empty list for every event.
C26_load_failure_empties_rules ==
    [][(LoadRules /\ disk.kind \in {"missing", "corrupt"}) =>
           /\ ret' = None
           /\ rules' = <<>>
           /\ \A file_path \in EventFiles, event_type \in EventTypes :
                  find_matching_rules(rules', file_path, event_type, os_seps) = <<>>]_vars

\* the rules were loaded from an unparsable file that a failed save left in
\* place, and the store is empty
C26_witness ==
    /\ op.name = "load_rules"
    /\ disk.kind = "corrupt"
    /\ ~writable
    /\ rules = <<>>

-----------------------------------------------------------------------------
(* Properties of a file-driven workflow run *)

TriggerKeys ==
    {"trigger.file_path", "trigger.file_name", "trigger.file_dir",
     "trigger.output_path", "trigger.timestamp"}

\* C27: for a file-driven workflow run, the seed context given to execute
\* holds exactly the five trigger keys, each bound to a string: the path of
\* the file, its name, its directory, the output path and the timestamp; and
\* when no output path is given (None or the empty string) trigger.output_path
\* is the directory of the triggering file.
C27_seed_context_five_keys ==
    op.name = "run_workflow_for_file" =>
        /\ trigger_context.t = "dict"
        /\ DOMAIN trigger_context.d = TriggerKeys
        /\ \A key \in TriggerKeys : trigger_context.d[key].t = "str"
        /\ LET seed == trigger_context.d
               dir  == dirname(op.file_path, os_seps)
           IN  /\ seed["trigger.file_path"].s = op.file_path
               /\ seed["trigger.file_name"].s = basename(op.file_path, os_seps)
               /\ seed["trigger.file_name"].s # ""
               /\ seed["trigger.file_dir"].s = dir
               /\ seed["trigger.timestamp"].s = Now
               /\ (op.output_path \in {NoneV, StrV("")}) =>
                      seed["trigger.output_path"].s = dir
               /\ (op.output_path \notin {NoneV, StrV("")}) =>
                      seed["trigger.output_path"] = op.output_path
               /\ dir # "" => \A key \in TriggerKeys : seed[key].s # ""

\* a run for a file in a nested folder, called with an empty output path: the
\* output path of the seed context is the folder of the file
C27_witness ==
    /\ op.name = "run_workflow_for_file"
    /\ op.file_path = "/in/sub/g.t"
    /\ op.output_path = StrV("")
    /\ trigger_context.d["trigger.output_path"] = StrV("/in/sub")
    /\ trigger_context.d["trigger.file_name"] = StrV("g.t")
    /\ wf_pc = "returned"

-----------------------------------------------------------------------------
(* Properties of the order of the steps *)

\* the steps the loaded workflow document declares, in the order of the file
declared_steps ==
    IF workflow.t = "dict" /\ "actions" \in DOMAIN workflow.d
    THEN workflow.d["actions"] ELSE <<>>

\* C28: execute invokes the steps' tools in declaration order, each step at
\* most once, and appends one StepResult per invoked step: the results
\* sequence is a prefix of the declared steps, the k-th StepResult naming the
\* k-th declared step's id and tool.
C28_results_prefix_of_steps ==
    /\ Len(results) <= Len(declared_steps)
    /\ Len(tool_calls) = Len(results)
    /\ \A k \in DOMAIN results :
           /\ results[k].step_id = Get(declared_steps[k], "id", "step" \o ToString(k))
           /\ results[k].tool = Get(declared_steps[k], "tool", None)
           /\ tool_calls[k].step = k
           /\ tool_calls[k].tool = Get(declared_steps[k], "tool", None)
    /\ wf_pc = "returned" /\ "results" \in DOMAIN wf_return => wf_return.results = results

\* execute returned after two of three declared steps, the two being
\* different steps: the results are a proper prefix
C28_witness ==
    /\ wf_pc = "returned"
    /\ Len(declared_steps) = 3
    /\ Len(results) = 2
    /\ declared_steps[1] # declared_steps[2]
    /\ results[1].step_id = "b"
    /\ results[2].step_id = "step2"

-----------------------------------------------------------------------------
(* Properties of the context after a step *)

\* the results that are the last one recorded under their step id
LastOfId == {k \in DOMAIN results :
                \A m \in DOMAIN results : results[m].step_id = results[k].step_id => m <= k}

\* the value the tool of StepResult r gave, the empty string when it gave none
result_value(r) ==
    IF "result" \in DOMAIN r THEN Get(r.result, "result", StrV("")) ELSE StrV("")

\* C29: for every step that execute records in results, including a step
\* that failed because its tool raised an exception, the context afterwards
\* contains '<id>.success' equal to that StepResult's success flag and
\* '<id>.result' equal to the tool's result value (an empty value when the
\* tool gave none).  (Of the steps that share an id, the last one recorded.)
C29_context_records_every_step ==
    \A k \in LastOfId :
        LET id == results[k].step_id
        IN  /\ (id \o ".success") \in DOMAIN context
            /\ (id \o ".result") \in DOMAIN context
            /\ context[id \o ".success"] = BoolV(results[k].success)
            /\ context[id \o ".result"] = result_value(results[k])

-----------------------------------------------------------------------------
(* Properties of the moment of resolution *)

\* the id of the m-th declared step
declared_id(m) == Get(declared_steps[m], "id", "step" \o ToString(m))

\* the two context keys of a step id
step_keys(id) == {id \o ".result", id \o ".success"}

\* the mapping d without the keys of the set keys
Without(d, keys) == [x \in DOMAIN d \ keys |-> d[x]]

\* the context when step k begins, told from what execute was given and from
\* the StepResults before k: the seed, then the two keys of every earlier
\* step in the order of the steps
RECURSIVE context_before(_)
context_before(k) ==
    IF k = 1 THEN seeded_context(workflow.d, trigger_context, Now)
    ELSE LET r == results[k - 1]
         IN  SetKey(SetKey(context_before(k - 1),
                           r.step_id \o ".result", result_value(r)),
                    r.step_id \o ".success", BoolV(r.success))

\* the keys of step k and of the steps declared after it
OwnAndLaterKeys(k) ==
    UNION {step_keys(declared_id(m)) : m \in k..Len(declared_steps)}

\* C30, as claimed: argument resolution for step k reads the context as it is
\* when step k begins: a placeholder naming the result of an earlier executed
\* step resolves to that step's recorded result, while a placeholder naming
\* step k's own result or a later step's result is left as literal text.
C30_own_and_later_left_literal ==
    \A k \in DOMAIN tool_calls :
        tool_calls[k].args =
            resolve_variables(args_of(declared_steps[k]).d,
                              Without(context_before(k), OwnAndLaterKeys(k)))

\* C30, amended: argument resolution for step k reads the context as it is
\* when step k begins, which is the context execute was given plus the keys
\* recorded by the steps before k: a placeholder naming a step's result
\* resolves to the result recorded by the last earlier step with that id,
\* else to the value the given context holds under that key, and is left as
\* literal text when there is neither; what step k itself records is not
\* visible to its own arguments.
C30_resolution_at_step_begin ==
    \A k \in DOMAIN tool_calls :
        /\ tool_calls[k].args =
               resolve_variables(args_of(declared_steps[k]).d, context_before(k))
        /\ \A key \in DOMAIN args_of(declared_steps[k]).d :
               LET value == args_of(declared_steps[k]).d[key]
               IN  \A m \in k..Len(declared_steps) :
                       /\ value = StrV(placeholder(declared_id(m) \o ".result"))
                       /\ (declared_id(m) \o ".result") \notin DOMAIN context_before(k)
                       => tool_calls[k].args[key] = value

\* step c ran after step b and before another step c: its placeholder of b
\* was resolved to the result b recorded, its placeholder of itself was left
\* as it is, and the second c then got the result of the first
C30_witness ==
    /\ Len(tool_calls) = 3
    /\ trigger_context = NoneV
    /\ declared_id(1) = "b" /\ declared_id(2) = "c" /\ declared_id(3) = "c"
    /\ tool_calls[2].args["destination"] = result_value(results[1])
    /\ result_value(results[1]) = IntV(42)
    /\ tool_calls[2].args["source"] = StrV("{c.result}")
    /\ tool_calls[3].args["source"] = result_value(results[2])
    /\ result_value(results[2]) = StrV("v")

-----------------------------------------------------------------------------
(* Properties of the step id *)

\* the id the k-th declared step goes by: its declared id, "step<k>" when the
\* declared id is absent or blank
expected_step_id(k) ==
    IF "id" \in DOMAIN declared_steps[k] /\ declared_steps[k].id # ""
    THEN declared_steps[k].id
    ELSE "step" \o ToString(k)

\* C31: the step id used for the StepResult and for the context keys is the
\* step's declared id, and it is "step<i>" (i the 1-based position of the
\* step) when the declared id is absent or blank.
C31_step_id_defaulted ==
    \A k \in DOMAIN results :
        /\ results[k].step_id = expected_step_id(k)
        /\ "result" \in DOMAIN results[k] =>
               step_keys(expected_step_id(k)) \subseteq DOMAIN context

-----------------------------------------------------------------------------
(* Properties of the growth of the context *)

\* C32: during one execute call the context grows monotonically: every key
\* present in the context after step k is still present after step k+1 and in
\* the returned context; no step removes a key.
C32_context_grows ==
    [][(wf_pc = "loop" \/ wf_pc = "break") =>
           (/\ DOMAIN context \subseteq DOMAIN context'
            /\ (wf_pc' = "returned" /\ "context" \in DOMAIN wf_return') =>
                   DOMAIN context \subseteq DOMAIN wf_return'.context)]_vars

\* execute returned after three steps with three ids whose tools returned: the
\* returned context holds the keys of the seed and of each of the three steps
C32_witness ==
    /\ wf_pc = "returned"
    /\ Len(results) = 3
    /\ trigger_context.t = "dict"
    /\ DOMAIN trigger_context.d \subseteq DOMAIN wf_return.context
    /\ \A k \in 1..3 : "result" \in DOMAIN results[k]
    /\ \A j, k \in 1..3 : results[j].step_id = results[k].step_id => j = k
    /\ \A k \in 1..3 : step_keys(results[k].step_id) \subseteq DOMAIN wf_return.context

-----------------------------------------------------------------------------
(* Properties of the resolution of nested arguments *)

\* the resolution of one argument string, as at the top level
resolved_string(value) ==
    resolve_matches(value.s, findall_placeholders(value.s, 1), 1, value, context)

\* res has the keys of args; a string of args is resolved as at the top
\* level, a mapping is resolved in the same way, anything else is unchanged
RECURSIVE resolved_as_declared(_, _)
resolved_as_declared(args, res) ==
    /\ DOMAIN res = DOMAIN args
    /\ \A key \in DOMAIN args :
           LET value == args[key]
           IN  CASE value.t = "str"  -> res[key] = resolved_string(value)
                 [] value.t = "dict" ->
                        /\ res[key].t = "dict"
                        /\ resolved_as_declared(value.d, res[key].d)
                 [] OTHER            -> res[key] = value

\* C33: argument values that are nested mappings are resolved recursively
\* with the same placeholder rules at every depth, and argument values that
\* are neither strings nor mappings (numbers, booleans, lists, null) are
\* passed to the tool unchanged; the resolved arguments have exactly the keys
\* of the declared arguments.
C33_nested_resolved_recursively ==
    op.name = "_resolve_variables" => resolved_as_declared(op.args, ret)

\* arguments with a mapping in a mapping were resolved: the placeholder two
\* levels down was substituted, the one a level down kept the type of its
\* value, and the bool, the lists and null are as declared
C33_witness ==
    /\ op.name = "_resolve_variables"
    /\ DOMAIN op.args = {"d", "f", "l", "z"}
    /\ context = [a |-> IntV(42), b |-> StrV("V")]
    /\ ret.d.d.x = IntV(42)
    /\ ret.d.d.e.d.y = StrV("pVq")
    /\ ret.d.d.e.d.n = IntV(7)
    /\ ret.d.d.l = ListV(<<StrV("{b}")>>)
    /\ ret.f = BoolV(FALSE)
    /\ ret.l = ListV(<<StrV("{a}")>>)
    /\ ret.z = NoneV

-----------------------------------------------------------------------------
(* Properties of the seeding of the context *)

\* the two keys execute sets itself
EngineKeys == {"workflow.name", "workflow.timestamp"}

\* the entries execute was called with
seed_entries == IF trigger_context.t = "dict" THEN trigger_context.d ELSE EmptyDict

\* execute has seeded the context and no step has run yet
AtStartOfExecute == wf_pc = "loop" /\ wf_i = 1 /\ wf_run = 1

\* C34: at the start of execute the context holds every entry of
\* initial_context, and workflow.name and workflow.timestamp are then set by
\* the engine: workflow.name equals the loaded workflow's name even when
\* initial_context supplied a different value for that key, and every other
\* seed entry keeps its seed value.
C34_seed_then_engine_keys ==
    AtStartOfExecute =>
        /\ DOMAIN context = DOMAIN seed_entries \cup EngineKeys
        /\ context["workflow.name"] = StrV(Get(workflow.d, "workflow_name", ""))
        /\ context["workflow.timestamp"] = StrV(Now)
        /\ \A key \in DOMAIN seed_entries \ EngineKeys : context[key] = seed_entries[key]

\* execute was called with a context that names another workflow and holds
\* an older timestamp: the engine's values replaced both, the entry of the
\* trigger is as given
C34_witness ==
    /\ AtStartOfExecute
    /\ EngineKeys \subseteq DOMAIN seed_entries
    /\ seed_entries["workflow.name"] = StrV("other")
    /\ seed_entries["workflow.timestamp"] = StrV("old")
    /\ context["workflow.name"] = StrV("wf")
    /\ context["workflow.timestamp"] = StrV(Now)
    /\ context["trigger.file_path"] = StrV("/in/f.txt")

-----------------------------------------------------------------------------
(* Properties of the dispatch of one event *)

HasActionType(rule) == action_type_of(rule) # None

IsExecuteAction(entry) == entry.kind = "execute_action"

\* the matching rules whose action is due, in the order of the match
DueRules == SelectSeq(dispatch.matching_rules, HasActionType)

\* the execute_action calls made for the event, in order
ActionsRun == SelectSeq(timeline, IsExecuteAction)

\* C35: for one filesystem event, the dispatch glue runs the action of every
\* matching rule that has an action type exactly once, in the order returned
\* by find_matching_rules, and a failing or raising action of one rule does
\* not prevent the actions of the later matching rules from running.
C35_every_matching_action_runs ==
    dispatch.pc \in {"returned", "raised"} =>
        /\ Len(ActionsRun) = Len(DueRules)
        /\ \A k \in DOMAIN ActionsRun : ActionsRun[k].rule = DueRules[k].id

-----------------------------------------------------------------------------
(* Properties of the calls that change the store *)

\* the call that the step made changed the list as its operation says:
\* the rule was appended, the first rule with the id was replaced in place
\* by the given rule under that id, or it was removed; the rest is as before
ChangedAsAddressed ==
    CASE op'.name = "add_rule" ->
             /\ Len(rules') = Len(rules) + 1
             /\ SubSeq(rules', 1, Len(rules)) = rules
             /\ \A key \in DOMAIN op'.rule \ {"id"} :
                    rules'[Len(rules')][key] = op'.rule[key]
      [] op'.name = "update_rule" ->
             LET i == index_of_id(rules, op'.rule_id, 1)
             IN  /\ i # 0
                 /\ Len(rules') = Len(rules)
                 /\ \A j \in DOMAIN rules : j # i => rules'[j] = rules[j]
                 /\ rules'[i] = SetKey(op'.updated_rule, "id", op'.rule_id)
      [] op'.name = "delete_rule" ->
             LET i == index_of_id(rules, op'.rule_id, 1)
             IN  /\ i # 0
                 /\ rules' = SubSeq(rules, 1, i - 1) \o SubSeq(rules, i + 1, Len(rules))
      [] OTHER -> FALSE

\* C36: whenever add_rule, update_rule or delete_rule returns False (unknown
\* id, or the save to the rule file failed), the in-memory rule list is the
\* same as before the call; whenever one returns True, exactly the addressed
\* rule was appended, replaced in place or removed and all other rules keep
\* their content and relative order.
C36_false_means_unchanged ==
    [][(AddRule \/ UpdateRule \/ DeleteRule) =>
           (/\ ret' = FALSE => rules' = rules
            /\ ret' = TRUE => ChangedAsAddressed)]_vars

-----------------------------------------------------------------------------
(* The watcher when the observer thread is busy in a handler: the events    *)
(* are dispatched on the observer thread, which runs _process_file          *)
(* (watcher.py:26-52) to its end before it looks at the stop flag, so       *)
(* observer.join(timeout=2) of stop can return with the thread still alive  *)

\* watcher.py:102-111  FileWatcher.stop when join returns on its timeout: the
\* observer was told to stop, its thread is still alive, the flag is reset
after_stop_join_timeout(w) ==
    IF w.running
    THEN [w EXCEPT !.observer.stopped = TRUE, !.running = FALSE]
    ELSE w

\* watcher.py:102-111  the watchers FileWatcher.stop can leave
stop_outcomes(w) ==
    {after_stop(w)} \cup (IF w.observer.alive THEN {after_stop_join_timeout(w)} ELSE {})

\* watcher.py:130-135  FileWatcher.restart: stop, a new Observer, start
after_restart(w, paths) ==
    after_start([w EXCEPT !.observer = new_observer(w.observer.id + 1)], paths)

\* app.py:137-142  POST /api/watcher/stop while the observer thread is busy
StopWatcherBusy ==
    /\ watcher.running /\ watcher.observer.alive
    /\ op' = [name |-> "stop_watcher"]
    /\ ret' = "Watcher stopped"
    /\ watcher' = after_stop_join_timeout(watcher)
    /\ UNCHANGED <<os_seps, rules, disk, writable, wvars, dirs, thread_error,
                   start_threads, detached, pvars>>

\* watcher.py:130-135  watcher.restart(); the observer it leaves behind may
\* still be alive
Restart ==
    /\ watcher.observer.id < MaxObservers
    /\ op' = [name |-> "restart"]
    /\ ret' = None
    /\ \E stopped \in stop_outcomes(watcher), paths \in get_watched_paths(rules) :
          /\ watcher' = after_restart(stopped, paths)
          /\ dirs' = after_makedirs(dirs, paths)
          /\ detached' = IF stopped.observer.alive
                         THEN detached \cup {stopped.observer} ELSE detached
    /\ thread_error' = None
    /\ UNCHANGED <<os_seps, rules, disk, writable, wvars, start_threads, pvars>>

\* the schedule calls one observer may collect
MaxScheduled == 4

\* app.py:113-134  POST /api/watcher/start, the schedule calls bounded
StartWatcherAgain ==
    /\ Len(watcher.observer.scheduled) + 2 <= MaxScheduled
    /\ StartWatcher

RestartNext ==
    \/ StartWatcherAgain
    \/ StopWatcher
    \/ StopWatcherBusy
    \/ WatcherStatus
    \/ ObserverDies
    \/ Restart

RestartSpec == WatchInit /\ [][RestartNext]_vars

\* the watcher was stopped, or its thread was found dead and the flag reset
StoppedOrReset == ~watcher.running /\ watcher.observer.started

\* at least one enabled rule has a trigger path
HasWatchedPath == \E paths \in get_watched_paths(rules) : paths # <<>>

\* C37: a start request or restart() on a watcher that was stopped, or whose
\* dead thread was detected and the flag reset, leaves a newly created
\* observer in place, starts no observer a second time, and leaves the
\* watcher running when an enabled rule has a trigger path
C37_start_after_stop_uses_new_observer ==
    [][((StartWatcher \/ Restart) /\ StoppedOrReset)
        => (/\ watcher'.observer.id # watcher.observer.id
            /\ ~watcher'.observer.stopped
            /\ thread_error' = None
            /\ HasWatchedPath => is_running(watcher'))]_vars

\* the running flag is set only on an observer that start() started and that
\* was not told to stop
FlagMeansStarted ==
    watcher.running => (watcher.observer.started /\ ~watcher.observer.stopped)

\* C38: the running flag is true only if the current observer was started by
\* start() and stop() was not called since; stop() leaves the flag false and
\* changes nothing on a watcher that is not running; start() with no watched
\* path leaves the flag false and does not start the observer
C38_running_flag ==
    /\ []FlagMeansStarted
    /\ [][(/\ (StopWatcher \/ StopWatcherBusy) => ~watcher'.running
           /\ ((StopWatcher \/ StopWatcherBusy) /\ ~watcher.running) => watcher' = watcher
           /\ ((StartWatcher \/ Restart \/ StartThreadPaths) /\ ~HasWatchedPath)
                 => (~watcher'.running /\ ~watcher'.observer.started))]_vars

\* workflow_engine.py:129-138 with the matches taken in this order
resolved_in_order(value, matches, ctx) ==
    resolve_matches(value, matches, 1, StrV(value), ctx)

\* C39: substitution of embedded placeholders is a single pass over the
\* original argument: text brought in by a substituted context value is not
\* resolved again, so the resolved string is the argument with each of its
\* placeholders replaced once, whatever the order the placeholders are
\* processed in
C39_single_pass_order_independent ==
    IsResolve =>
        \A key \in StringArgs :
            LET value   == op.args[key].s
                matches == findall_placeholders(value, 1)
            IN  WholePlaceholderKeys(value) = {} =>
                    /\ ret[key] = StrV(SubstitutedOnce(value, context))
                    /\ ret[key] = resolved_in_order(value, Reverse(matches), context)

====
